---- MODULE Spec2Model ----
(***************************************************************************)
(* The colour classification engine of data_collection/color_extractor.py: *)
(* palette extraction (Pylette first, KMeans as fallback), the attribute   *)
(* analyser, the background classifier, the reference colour matcher, the  *)
(* summary builder and extract_colors_from_product_image around them.      *)
(*                                                                         *)
(* Numbers.  Python computes lightness, saturation and hue as floats; here *)
(* they are exact rationals <<n, d>> in lowest terms (d > 0), compared by  *)
(* cross multiplication, so a threshold test is the test of the exact      *)
(* value.  A percentage is an integer number of percent: the label counts  *)
(* drawn below are whole percents of the 150 x 150 pixels.                 *)
(***************************************************************************)
EXTENDS Integers, Sequences, FiniteSets, TLC

(***************************************************************************)
(* Bounds of the model.                                                    *)
(***************************************************************************)
\* largest palette_size a call is made with
MaxPaletteSize == 2
\* longest palette handed to get_dominant_colors_summary on its own
MaxPaletteLen == 3
\* most calls made on one ColorExtractor
MaxCalls == 3
\* most products a collection run meets
MaxProducts == 3
\* largest batch_size of a collection run
MaxBatchSize == 2

(***************************************************************************)
(* Rationals.                                                              *)
(***************************************************************************)
RECURSIVE Gcd(_, _)
Gcd(a, b) == IF b = 0 THEN a ELSE Gcd(b, a % b)

Abs(x) == IF x < 0 THEN -x ELSE x

\* n/d in lowest terms, d > 0
Frac(n, d) ==
    LET g == Gcd(Abs(n), d)
    IN  IF n = 0 THEN <<0, 1>> ELSE <<n \div g, d \div g>>

\* a comparison that also holds on the threshold itself
LtOrEqual(q, a, b) == q[1] * b <= a * q[2]

\* q < a/b, q > a/b, q >= a/b for b > 0
Lt(q, a, b) == q[1] * b < a * q[2]
Gt(q, a, b) == q[1] * b > a * q[2]
Ge(q, a, b) == q[1] * b >= a * q[2]

Max3(t) ==
    LET m == IF t[1] >= t[2] THEN t[1] ELSE t[2]
    IN  IF m >= t[3] THEN m ELSE t[3]

Min3(t) ==
    LET m == IF t[1] <= t[2] THEN t[1] ELSE t[2]
    IN  IF m <= t[3] THEN m ELSE t[3]

(***************************************************************************)
(* colorsys.rgb_to_hls(r/255, g/255, b/255) on an 8-bit triple: the hue in *)
(* degrees (h * 360), the lightness and the saturation, exactly.           *)
(***************************************************************************)
HueDegrees(rgb) ==
    LET maxc   == Max3(rgb)
        minc   == Min3(rgb)
        rangec == maxc - minc
        r == rgb[1]
        g == rgb[2]
        b == rgb[3]
        \* h * rangec, before the division by 6 and the wrap to [0, 1)
        hn == IF r = maxc THEN g - b
              ELSE IF g = maxc THEN 2 * rangec + (b - r)
              ELSE 4 * rangec + (r - g)
    IN  IF minc = maxc THEN <<0, 1>>
        ELSE Frac((60 * hn) % (360 * rangec), rangec)

rgb_to_hls(rgb) ==
    LET maxc == Max3(rgb)
        minc == Min3(rgb)
        sumc == maxc + minc
        rangec == maxc - minc
        l == Frac(sumc, 510)
        s == IF minc = maxc THEN <<0, 1>>
             ELSE IF sumc <= 255 THEN Frac(rangec, sumc)
             ELSE Frac(rangec, 510 - sumc)
    IN  [h_deg |-> HueDegrees(rgb), l |-> l, s |-> s]

rgb_to_hsv(rgb) ==
    LET maxc == Max3(rgb)
        minc == Min3(rgb)
    IN  [h_deg |-> HueDegrees(rgb),
         s |-> IF minc = maxc THEN <<0, 1>> ELSE Frac(maxc - minc, maxc),
         v |-> Frac(maxc, 255)]

\* p/q * k, the "* 100" of the hsl and hsv dictionaries
Times(q, k) == Frac(q[1] * k, q[2])

\* tuple(max(0, min(255, int(c))) for c in color)
Clamp(c) == IF c < 0 THEN 0 ELSE IF c > 255 THEN 255 ELSE c

ClampRgb(color) == <<Clamp(color[1]), Clamp(color[2]), Clamp(color[3])>>

\* '#{:02x}{:02x}{:02x}'.format(r, g, b)
HexDigit(n) ==
    <<"0", "1", "2", "3", "4", "5", "6", "7",
      "8", "9", "a", "b", "c", "d", "e", "f">>[n + 1]

HexColor(rgb) ==
    "#" \o HexDigit(rgb[1] \div 16) \o HexDigit(rgb[1] % 16)
        \o HexDigit(rgb[2] \div 16) \o HexDigit(rgb[2] % 16)
        \o HexDigit(rgb[3] \div 16) \o HexDigit(rgb[3] % 16)

(***************************************************************************)
(* The reference colour catalog, in the iteration order of the dictionary. *)
(* chars spells name, for the substring tests of the matcher.              *)
(***************************************************************************)
CSS_COLORS ==
    <<
       [name |-> "aliceblue", chars |-> <<"a","l","i","c","e","b","l","u","e">>, rgb |-> <<240, 248, 255>>],
       [name |-> "antiquewhite", chars |-> <<"a","n","t","i","q","u","e","w","h","i","t","e">>, rgb |-> <<250, 235, 215>>],
       [name |-> "aqua", chars |-> <<"a","q","u","a">>, rgb |-> <<0, 255, 255>>],
       [name |-> "aquamarine", chars |-> <<"a","q","u","a","m","a","r","i","n","e">>, rgb |-> <<127, 255, 212>>],
       [name |-> "azure", chars |-> <<"a","z","u","r","e">>, rgb |-> <<240, 255, 255>>],
       [name |-> "beige", chars |-> <<"b","e","i","g","e">>, rgb |-> <<245, 245, 220>>],
       [name |-> "bisque", chars |-> <<"b","i","s","q","u","e">>, rgb |-> <<255, 228, 196>>],
       [name |-> "black", chars |-> <<"b","l","a","c","k">>, rgb |-> <<0, 0, 0>>],
       [name |-> "blanchedalmond", chars |-> <<"b","l","a","n","c","h","e","d","a","l","m","o","n","d">>, rgb |-> <<255, 235, 205>>],
       [name |-> "blue", chars |-> <<"b","l","u","e">>, rgb |-> <<0, 0, 255>>],
       [name |-> "blueviolet", chars |-> <<"b","l","u","e","v","i","o","l","e","t">>, rgb |-> <<138, 43, 226>>],
       [name |-> "brown", chars |-> <<"b","r","o","w","n">>, rgb |-> <<165, 42, 42>>],
       [name |-> "burlywood", chars |-> <<"b","u","r","l","y","w","o","o","d">>, rgb |-> <<222, 184, 135>>],
       [name |-> "cadetblue", chars |-> <<"c","a","d","e","t","b","l","u","e">>, rgb |-> <<95, 158, 160>>],
       [name |-> "chartreuse", chars |-> <<"c","h","a","r","t","r","e","u","s","e">>, rgb |-> <<127, 255, 0>>],
       [name |-> "chocolate", chars |-> <<"c","h","o","c","o","l","a","t","e">>, rgb |-> <<210, 105, 30>>],
       [name |-> "coral", chars |-> <<"c","o","r","a","l">>, rgb |-> <<255, 127, 80>>],
       [name |-> "cornflowerblue", chars |-> <<"c","o","r","n","f","l","o","w","e","r","b","l","u","e">>, rgb |-> <<100, 149, 237>>],
       [name |-> "cornsilk", chars |-> <<"c","o","r","n","s","i","l","k">>, rgb |-> <<255, 248, 220>>],
       [name |-> "crimson", chars |-> <<"c","r","i","m","s","o","n">>, rgb |-> <<220, 20, 60>>],
       [name |-> "cyan", chars |-> <<"c","y","a","n">>, rgb |-> <<0, 255, 255>>],
       [name |-> "darkblue", chars |-> <<"d","a","r","k","b","l","u","e">>, rgb |-> <<0, 0, 139>>],
       [name |-> "darkcyan", chars |-> <<"d","a","r","k","c","y","a","n">>, rgb |-> <<0, 139, 139>>],
       [name |-> "darkgoldenrod", chars |-> <<"d","a","r","k","g","o","l","d","e","n","r","o","d">>, rgb |-> <<184, 134, 11>>],
       [name |-> "darkgray", chars |-> <<"d","a","r","k","g","r","a","y">>, rgb |-> <<169, 169, 169>>],
       [name |-> "darkgreen", chars |-> <<"d","a","r","k","g","r","e","e","n">>, rgb |-> <<0, 100, 0>>],
       [name |-> "darkgrey", chars |-> <<"d","a","r","k","g","r","e","y">>, rgb |-> <<169, 169, 169>>],
       [name |-> "darkkhaki", chars |-> <<"d","a","r","k","k","h","a","k","i">>, rgb |-> <<189, 183, 107>>],
       [name |-> "darkmagenta", chars |-> <<"d","a","r","k","m","a","g","e","n","t","a">>, rgb |-> <<139, 0, 139>>],
       [name |-> "darkolivegreen", chars |-> <<"d","a","r","k","o","l","i","v","e","g","r","e","e","n">>, rgb |-> <<85, 107, 47>>],
       [name |-> "darkorange", chars |-> <<"d","a","r","k","o","r","a","n","g","e">>, rgb |-> <<255, 140, 0>>],
       [name |-> "darkorchid", chars |-> <<"d","a","r","k","o","r","c","h","i","d">>, rgb |-> <<153, 50, 204>>],
       [name |-> "darkred", chars |-> <<"d","a","r","k","r","e","d">>, rgb |-> <<139, 0, 0>>],
       [name |-> "darksalmon", chars |-> <<"d","a","r","k","s","a","l","m","o","n">>, rgb |-> <<233, 150, 122>>],
       [name |-> "darkseagreen", chars |-> <<"d","a","r","k","s","e","a","g","r","e","e","n">>, rgb |-> <<143, 188, 143>>],
       [name |-> "darkslateblue", chars |-> <<"d","a","r","k","s","l","a","t","e","b","l","u","e">>, rgb |-> <<72, 61, 139>>],
       [name |-> "darkslategray", chars |-> <<"d","a","r","k","s","l","a","t","e","g","r","a","y">>, rgb |-> <<47, 79, 79>>],
       [name |-> "darkslategrey", chars |-> <<"d","a","r","k","s","l","a","t","e","g","r","e","y">>, rgb |-> <<47, 79, 79>>],
       [name |-> "darkturquoise", chars |-> <<"d","a","r","k","t","u","r","q","u","o","i","s","e">>, rgb |-> <<0, 206, 209>>],
       [name |-> "darkviolet", chars |-> <<"d","a","r","k","v","i","o","l","e","t">>, rgb |-> <<148, 0, 211>>],
       [name |-> "deeppink", chars |-> <<"d","e","e","p","p","i","n","k">>, rgb |-> <<255, 20, 147>>],
       [name |-> "deepskyblue", chars |-> <<"d","e","e","p","s","k","y","b","l","u","e">>, rgb |-> <<0, 191, 255>>],
       [name |-> "dimgray", chars |-> <<"d","i","m","g","r","a","y">>, rgb |-> <<105, 105, 105>>],
       [name |-> "dimgrey", chars |-> <<"d","i","m","g","r","e","y">>, rgb |-> <<105, 105, 105>>],
       [name |-> "dodgerblue", chars |-> <<"d","o","d","g","e","r","b","l","u","e">>, rgb |-> <<30, 144, 255>>],
       [name |-> "firebrick", chars |-> <<"f","i","r","e","b","r","i","c","k">>, rgb |-> <<178, 34, 34>>],
       [name |-> "floralwhite", chars |-> <<"f","l","o","r","a","l","w","h","i","t","e">>, rgb |-> <<255, 250, 240>>],
       [name |-> "forestgreen", chars |-> <<"f","o","r","e","s","t","g","r","e","e","n">>, rgb |-> <<34, 139, 34>>],
       [name |-> "fuchsia", chars |-> <<"f","u","c","h","s","i","a">>, rgb |-> <<255, 0, 255>>],
       [name |-> "gainsboro", chars |-> <<"g","a","i","n","s","b","o","r","o">>, rgb |-> <<220, 220, 220>>],
       [name |-> "ghostwhite", chars |-> <<"g","h","o","s","t","w","h","i","t","e">>, rgb |-> <<248, 248, 255>>],
       [name |-> "gold", chars |-> <<"g","o","l","d">>, rgb |-> <<255, 215, 0>>],
       [name |-> "goldenrod", chars |-> <<"g","o","l","d","e","n","r","o","d">>, rgb |-> <<218, 165, 32>>],
       [name |-> "gray", chars |-> <<"g","r","a","y">>, rgb |-> <<128, 128, 128>>],
       [name |-> "grey", chars |-> <<"g","r","e","y">>, rgb |-> <<128, 128, 128>>],
       [name |-> "green", chars |-> <<"g","r","e","e","n">>, rgb |-> <<0, 128, 0>>],
       [name |-> "greenyellow", chars |-> <<"g","r","e","e","n","y","e","l","l","o","w">>, rgb |-> <<173, 255, 47>>],
       [name |-> "honeydew", chars |-> <<"h","o","n","e","y","d","e","w">>, rgb |-> <<240, 255, 240>>],
       [name |-> "hotpink", chars |-> <<"h","o","t","p","i","n","k">>, rgb |-> <<255, 105, 180>>],
       [name |-> "indianred", chars |-> <<"i","n","d","i","a","n","r","e","d">>, rgb |-> <<205, 92, 92>>],
       [name |-> "indigo", chars |-> <<"i","n","d","i","g","o">>, rgb |-> <<75, 0, 130>>],
       [name |-> "ivory", chars |-> <<"i","v","o","r","y">>, rgb |-> <<255, 255, 240>>],
       [name |-> "khaki", chars |-> <<"k","h","a","k","i">>, rgb |-> <<240, 230, 140>>],
       [name |-> "lavender", chars |-> <<"l","a","v","e","n","d","e","r">>, rgb |-> <<230, 230, 250>>],
       [name |-> "lavenderblush", chars |-> <<"l","a","v","e","n","d","e","r","b","l","u","s","h">>, rgb |-> <<255, 240, 245>>],
       [name |-> "lawngreen", chars |-> <<"l","a","w","n","g","r","e","e","n">>, rgb |-> <<124, 252, 0>>],
       [name |-> "lemonchiffon", chars |-> <<"l","e","m","o","n","c","h","i","f","f","o","n">>, rgb |-> <<255, 250, 205>>],
       [name |-> "lightblue", chars |-> <<"l","i","g","h","t","b","l","u","e">>, rgb |-> <<173, 216, 230>>],
       [name |-> "lightcoral", chars |-> <<"l","i","g","h","t","c","o","r","a","l">>, rgb |-> <<240, 128, 128>>],
       [name |-> "lightcyan", chars |-> <<"l","i","g","h","t","c","y","a","n">>, rgb |-> <<224, 255, 255>>],
       [name |-> "lightgoldenrodyellow", chars |-> <<"l","i","g","h","t","g","o","l","d","e","n","r","o","d","y","e","l","l","o","w">>, rgb |-> <<250, 250, 210>>],
       [name |-> "lightgray", chars |-> <<"l","i","g","h","t","g","r","a","y">>, rgb |-> <<211, 211, 211>>],
       [name |-> "lightgreen", chars |-> <<"l","i","g","h","t","g","r","e","e","n">>, rgb |-> <<144, 238, 144>>],
       [name |-> "lightgrey", chars |-> <<"l","i","g","h","t","g","r","e","y">>, rgb |-> <<211, 211, 211>>],
       [name |-> "lightpink", chars |-> <<"l","i","g","h","t","p","i","n","k">>, rgb |-> <<255, 182, 193>>],
       [name |-> "lightsalmon", chars |-> <<"l","i","g","h","t","s","a","l","m","o","n">>, rgb |-> <<255, 160, 122>>],
       [name |-> "lightseagreen", chars |-> <<"l","i","g","h","t","s","e","a","g","r","e","e","n">>, rgb |-> <<32, 178, 170>>],
       [name |-> "lightskyblue", chars |-> <<"l","i","g","h","t","s","k","y","b","l","u","e">>, rgb |-> <<135, 206, 250>>],
       [name |-> "lightslategray", chars |-> <<"l","i","g","h","t","s","l","a","t","e","g","r","a","y">>, rgb |-> <<119, 136, 153>>],
       [name |-> "lightslategrey", chars |-> <<"l","i","g","h","t","s","l","a","t","e","g","r","e","y">>, rgb |-> <<119, 136, 153>>],
       [name |-> "lightsteelblue", chars |-> <<"l","i","g","h","t","s","t","e","e","l","b","l","u","e">>, rgb |-> <<176, 196, 222>>],
       [name |-> "lightyellow", chars |-> <<"l","i","g","h","t","y","e","l","l","o","w">>, rgb |-> <<255, 255, 224>>],
       [name |-> "lime", chars |-> <<"l","i","m","e">>, rgb |-> <<0, 255, 0>>],
       [name |-> "limegreen", chars |-> <<"l","i","m","e","g","r","e","e","n">>, rgb |-> <<50, 205, 50>>],
       [name |-> "linen", chars |-> <<"l","i","n","e","n">>, rgb |-> <<250, 240, 230>>],
       [name |-> "magenta", chars |-> <<"m","a","g","e","n","t","a">>, rgb |-> <<255, 0, 255>>],
       [name |-> "maroon", chars |-> <<"m","a","r","o","o","n">>, rgb |-> <<128, 0, 0>>],
       [name |-> "mediumaquamarine", chars |-> <<"m","e","d","i","u","m","a","q","u","a","m","a","r","i","n","e">>, rgb |-> <<102, 205, 170>>],
       [name |-> "mediumblue", chars |-> <<"m","e","d","i","u","m","b","l","u","e">>, rgb |-> <<0, 0, 205>>],
       [name |-> "mediumorchid", chars |-> <<"m","e","d","i","u","m","o","r","c","h","i","d">>, rgb |-> <<186, 85, 211>>],
       [name |-> "mediumpurple", chars |-> <<"m","e","d","i","u","m","p","u","r","p","l","e">>, rgb |-> <<147, 112, 219>>],
       [name |-> "mediumseagreen", chars |-> <<"m","e","d","i","u","m","s","e","a","g","r","e","e","n">>, rgb |-> <<60, 179, 113>>],
       [name |-> "mediumslateblue", chars |-> <<"m","e","d","i","u","m","s","l","a","t","e","b","l","u","e">>, rgb |-> <<123, 104, 238>>],
       [name |-> "mediumspringgreen", chars |-> <<"m","e","d","i","u","m","s","p","r","i","n","g","g","r","e","e","n">>, rgb |-> <<0, 250, 154>>],
       [name |-> "mediumturquoise", chars |-> <<"m","e","d","i","u","m","t","u","r","q","u","o","i","s","e">>, rgb |-> <<72, 209, 204>>],
       [name |-> "mediumvioletred", chars |-> <<"m","e","d","i","u","m","v","i","o","l","e","t","r","e","d">>, rgb |-> <<199, 21, 133>>],
       [name |-> "midnightblue", chars |-> <<"m","i","d","n","i","g","h","t","b","l","u","e">>, rgb |-> <<25, 25, 112>>],
       [name |-> "mintcream", chars |-> <<"m","i","n","t","c","r","e","a","m">>, rgb |-> <<245, 255, 250>>],
       [name |-> "mistyrose", chars |-> <<"m","i","s","t","y","r","o","s","e">>, rgb |-> <<255, 228, 225>>],
       [name |-> "moccasin", chars |-> <<"m","o","c","c","a","s","i","n">>, rgb |-> <<255, 228, 181>>],
       [name |-> "navajowhite", chars |-> <<"n","a","v","a","j","o","w","h","i","t","e">>, rgb |-> <<255, 222, 173>>],
       [name |-> "navy", chars |-> <<"n","a","v","y">>, rgb |-> <<0, 0, 128>>],
       [name |-> "oldlace", chars |-> <<"o","l","d","l","a","c","e">>, rgb |-> <<253, 245, 230>>],
       [name |-> "olive", chars |-> <<"o","l","i","v","e">>, rgb |-> <<128, 128, 0>>],
       [name |-> "olivedrab", chars |-> <<"o","l","i","v","e","d","r","a","b">>, rgb |-> <<107, 142, 35>>],
       [name |-> "orange", chars |-> <<"o","r","a","n","g","e">>, rgb |-> <<255, 165, 0>>],
       [name |-> "orangered", chars |-> <<"o","r","a","n","g","e","r","e","d">>, rgb |-> <<255, 69, 0>>],
       [name |-> "orchid", chars |-> <<"o","r","c","h","i","d">>, rgb |-> <<218, 112, 214>>],
       [name |-> "palegoldenrod", chars |-> <<"p","a","l","e","g","o","l","d","e","n","r","o","d">>, rgb |-> <<238, 232, 170>>],
       [name |-> "palegreen", chars |-> <<"p","a","l","e","g","r","e","e","n">>, rgb |-> <<152, 251, 152>>],
       [name |-> "paleturquoise", chars |-> <<"p","a","l","e","t","u","r","q","u","o","i","s","e">>, rgb |-> <<175, 238, 238>>],
       [name |-> "palevioletred", chars |-> <<"p","a","l","e","v","i","o","l","e","t","r","e","d">>, rgb |-> <<219, 112, 147>>],
       [name |-> "papayawhip", chars |-> <<"p","a","p","a","y","a","w","h","i","p">>, rgb |-> <<255, 239, 213>>],
       [name |-> "peachpuff", chars |-> <<"p","e","a","c","h","p","u","f","f">>, rgb |-> <<255, 218, 185>>],
       [name |-> "peru", chars |-> <<"p","e","r","u">>, rgb |-> <<205, 133, 63>>],
       [name |-> "pink", chars |-> <<"p","i","n","k">>, rgb |-> <<255, 192, 203>>],
       [name |-> "plum", chars |-> <<"p","l","u","m">>, rgb |-> <<221, 160, 221>>],
       [name |-> "powderblue", chars |-> <<"p","o","w","d","e","r","b","l","u","e">>, rgb |-> <<176, 224, 230>>],
       [name |-> "purple", chars |-> <<"p","u","r","p","l","e">>, rgb |-> <<128, 0, 128>>],
       [name |-> "rebeccapurple", chars |-> <<"r","e","b","e","c","c","a","p","u","r","p","l","e">>, rgb |-> <<102, 51, 153>>],
       [name |-> "red", chars |-> <<"r","e","d">>, rgb |-> <<255, 0, 0>>],
       [name |-> "rosybrown", chars |-> <<"r","o","s","y","b","r","o","w","n">>, rgb |-> <<188, 143, 143>>],
       [name |-> "royalblue", chars |-> <<"r","o","y","a","l","b","l","u","e">>, rgb |-> <<65, 105, 225>>],
       [name |-> "saddlebrown", chars |-> <<"s","a","d","d","l","e","b","r","o","w","n">>, rgb |-> <<139, 69, 19>>],
       [name |-> "salmon", chars |-> <<"s","a","l","m","o","n">>, rgb |-> <<250, 128, 114>>],
       [name |-> "sandybrown", chars |-> <<"s","a","n","d","y","b","r","o","w","n">>, rgb |-> <<244, 164, 96>>],
       [name |-> "seagreen", chars |-> <<"s","e","a","g","r","e","e","n">>, rgb |-> <<46, 139, 87>>],
       [name |-> "seashell", chars |-> <<"s","e","a","s","h","e","l","l">>, rgb |-> <<255, 245, 238>>],
       [name |-> "sienna", chars |-> <<"s","i","e","n","n","a">>, rgb |-> <<160, 82, 45>>],
       [name |-> "silver", chars |-> <<"s","i","l","v","e","r">>, rgb |-> <<192, 192, 192>>],
       [name |-> "skyblue", chars |-> <<"s","k","y","b","l","u","e">>, rgb |-> <<135, 206, 235>>],
       [name |-> "slateblue", chars |-> <<"s","l","a","t","e","b","l","u","e">>, rgb |-> <<106, 90, 205>>],
       [name |-> "slategray", chars |-> <<"s","l","a","t","e","g","r","a","y">>, rgb |-> <<112, 128, 144>>],
       [name |-> "slategrey", chars |-> <<"s","l","a","t","e","g","r","e","y">>, rgb |-> <<112, 128, 144>>],
       [name |-> "snow", chars |-> <<"s","n","o","w">>, rgb |-> <<255, 250, 250>>],
       [name |-> "springgreen", chars |-> <<"s","p","r","i","n","g","g","r","e","e","n">>, rgb |-> <<0, 255, 127>>],
       [name |-> "steelblue", chars |-> <<"s","t","e","e","l","b","l","u","e">>, rgb |-> <<70, 130, 180>>],
       [name |-> "tan", chars |-> <<"t","a","n">>, rgb |-> <<210, 180, 140>>],
       [name |-> "teal", chars |-> <<"t","e","a","l">>, rgb |-> <<0, 128, 128>>],
       [name |-> "thistle", chars |-> <<"t","h","i","s","t","l","e">>, rgb |-> <<216, 191, 216>>],
       [name |-> "tomato", chars |-> <<"t","o","m","a","t","o">>, rgb |-> <<255, 99, 71>>],
       [name |-> "turquoise", chars |-> <<"t","u","r","q","u","o","i","s","e">>, rgb |-> <<64, 224, 208>>],
       [name |-> "violet", chars |-> <<"v","i","o","l","e","t">>, rgb |-> <<238, 130, 238>>],
       [name |-> "wheat", chars |-> <<"w","h","e","a","t">>, rgb |-> <<245, 222, 179>>],
       [name |-> "white", chars |-> <<"w","h","i","t","e">>, rgb |-> <<255, 255, 255>>],
       [name |-> "whitesmoke", chars |-> <<"w","h","i","t","e","s","m","o","k","e">>, rgb |-> <<245, 245, 245>>],
       [name |-> "yellow", chars |-> <<"y","e","l","l","o","w">>, rgb |-> <<255, 255, 0>>],
       [name |-> "yellowgreen", chars |-> <<"y","e","l","l","o","w","g","r","e","e","n">>, rgb |-> <<154, 205, 50>>]
    >>

\* family_keywords of _find_closest_css_color
family_keywords ==
    [
       red |-> <<<<"r","e","d">>, <<"c","r","i","m","s","o","n">>, <<"m","a","r","o","o","n">>, <<"f","i","r","e","b","r","i","c","k">>, <<"t","o","m","a","t","o">>, <<"s","a","l","m","o","n">>, <<"i","n","d","i","a","n","r","e","d">>>>,
       orange |-> <<<<"o","r","a","n","g","e">>, <<"c","o","r","a","l">>, <<"c","h","o","c","o","l","a","t","e">>, <<"s","i","e","n","n","a">>, <<"p","e","r","u">>, <<"t","a","n">>, <<"g","o","l","d","e","n","r","o","d">>>>,
       yellow |-> <<<<"y","e","l","l","o","w">>, <<"g","o","l","d">>, <<"k","h","a","k","i">>, <<"b","e","i","g","e">>, <<"l","e","m","o","n">>, <<"i","v","o","r","y">>>>,
       green |-> <<<<"g","r","e","e","n">>, <<"o","l","i","v","e">>, <<"l","i","m","e">>, <<"f","o","r","e","s","t">>, <<"s","e","a","g","r","e","e","n">>, <<"s","p","r","i","n","g","g","r","e","e","n">>, <<"l","a","w","n","g","r","e","e","n">>>>,
       cyan |-> <<<<"c","y","a","n">>, <<"a","q","u","a">>, <<"t","u","r","q","u","o","i","s","e">>, <<"t","e","a","l">>>>,
       blue |-> <<<<"b","l","u","e">>, <<"n","a","v","y">>, <<"s","l","a","t","e","b","l","u","e">>, <<"r","o","y","a","l","b","l","u","e">>, <<"d","o","d","g","e","r","b","l","u","e">>, <<"s","k","y","b","l","u","e">>, <<"s","t","e","e","l","b","l","u","e">>, <<"m","i","d","n","i","g","h","t","b","l","u","e">>>>,
       purple |-> <<<<"p","u","r","p","l","e">>, <<"v","i","o","l","e","t">>, <<"i","n","d","i","g","o">>, <<"o","r","c","h","i","d">>, <<"p","l","u","m">>, <<"r","e","b","e","c","c","a","p","u","r","p","l","e">>>>,
       pink |-> <<<<"p","i","n","k">>, <<"h","o","t","p","i","n","k">>, <<"l","i","g","h","t","p","i","n","k">>, <<"d","e","e","p","p","i","n","k">>, <<"p","a","l","e","v","i","o","l","e","t","r","e","d">>>>,
       gray |-> <<<<"g","r","a","y">>, <<"g","r","e","y">>, <<"s","l","a","t","e">>, <<"s","i","l","v","e","r">>, <<"g","a","i","n","s","b","o","r","o">>, <<"w","h","i","t","e","s","m","o","k","e">>, <<"d","i","m","g","r","a","y">>, <<"d","a","r","k","g","r","a","y">>, <<"l","i","g","h","t","g","r","a","y">>>>,
       white |-> <<<<"w","h","i","t","e">>, <<"s","n","o","w">>, <<"i","v","o","r","y">>, <<"f","l","o","r","a","l","w","h","i","t","e">>, <<"g","h","o","s","t","w","h","i","t","e">>, <<"s","e","a","s","h","e","l","l">>, <<"l","i","n","e","n">>, <<"o","l","d","l","a","c","e">>>>,
       black |-> <<<<"b","l","a","c","k">>>>
    ]

\* kw in css_name_lower
Contains(chars, kw) ==
    \E i \in 1..(Len(chars) - Len(kw) + 1) :
        \A j \in 1..Len(kw) : chars[i + j - 1] = kw[j]

\* any(kw in css_name_lower for kw in keywords)
AnyKeyword(chars, keywords) ==
    \E k \in 1..Len(keywords) : Contains(chars, keywords[k])

\* a family detection on the 60-degree buckets of the tone
ColorFamilyByTone(rgb) ==
    LET hls == rgb_to_hls(rgb)
        l == hls.l
        s == hls.s
        h_deg == hls.h_deg
    IN  IF Gt(l, 85, 100) THEN "white"
        ELSE IF Lt(l, 15, 100) THEN "black"
        ELSE IF Lt(s, 15, 100) THEN "gray"
        ELSE IF Lt(h_deg, 30, 1) \/ Ge(h_deg, 330, 1) THEN "red"
        ELSE IF Lt(h_deg, 60, 1) THEN "orange"
        ELSE IF Lt(h_deg, 90, 1) THEN "yellow"
        ELSE IF Lt(h_deg, 150, 1) THEN "green"
        ELSE IF Lt(h_deg, 195, 1) THEN "cyan"
        ELSE IF Lt(h_deg, 210, 1) THEN "blue"
        ELSE IF Lt(h_deg, 270, 1) THEN "purple"
        ELSE "pink"

\* "Determine color family by hue"
ColorFamily(rgb) ==
    LET hls == rgb_to_hls(rgb)
        l == hls.l
        s == hls.s
        h_deg == hls.h_deg
    IN  IF Gt(l, 85, 100) THEN "white"
        ELSE IF Lt(l, 15, 100) THEN "black"
        ELSE IF Lt(s, 15, 100) THEN "gray"
        ELSE IF Lt(h_deg, 15, 1) \/ Ge(h_deg, 345, 1) THEN "red"
        ELSE IF Lt(h_deg, 45, 1) THEN "orange"
        ELSE IF Lt(h_deg, 75, 1) THEN "yellow"
        ELSE IF Lt(h_deg, 165, 1) THEN "green"
        ELSE IF Lt(h_deg, 195, 1) THEN "cyan"
        ELSE IF Lt(h_deg, 255, 1) THEN "blue"
        ELSE IF Lt(h_deg, 285, 1) THEN "purple"
        ELSE IF Lt(h_deg, 315, 1) THEN "pink"
        ELSE "red"

NeutralFamilies == {"gray", "white", "black"}

\* a distance over the first two channels only
SquaredDistanceTwoChannels(rgb, css_rgb) ==
      (rgb[1] - css_rgb[1]) * (rgb[1] - css_rgb[1])
    + (rgb[2] - css_rgb[2]) * (rgb[2] - css_rgb[2])

\* sum((a - b) ** 2 for a, b in zip(rgb, css_rgb)): the distance, squared
SquaredDistance(rgb, css_rgb) ==
      (rgb[1] - css_rgb[1]) * (rgb[1] - css_rgb[1])
    + (rgb[2] - css_rgb[2]) * (rgb[2] - css_rgb[2])
    + (rgb[3] - css_rgb[3]) * (rgb[3] - css_rgb[3])

(***************************************************************************)
(* The product of the factors 0.5, 1.5 and 1.3 applied to one catalog      *)
(* entry, in twentieths (20 = no adjustment); keywords is family_keywords. *)
(***************************************************************************)
\* a bonus for the first keyword of the family only
BonusFirstKeyword(factor, color_family, chars, keywords) ==
    IF Contains(chars, keywords[color_family][1])
    THEN factor \div 2 ELSE factor

Bonus(factor, color_family, chars, keywords) ==
    IF AnyKeyword(chars, keywords[color_family])
    THEN factor \div 2 ELSE factor

GrayPenalty(factor, color_family, chars, keywords) ==
    IF color_family \notin NeutralFamilies /\ AnyKeyword(chars, keywords["gray"])
    THEN (factor * 3) \div 2 ELSE factor

ColorfulPenalty(factor, color_family, chars, keywords) ==
    IF color_family \in NeutralFamilies
       /\ ~AnyKeyword(chars, keywords[color_family])
    THEN (factor * 13) \div 10 ELSE factor

Adjustment(color_family, chars, keywords) ==
    ColorfulPenalty(
        GrayPenalty(Bonus(20, color_family, chars, keywords),
                    color_family, chars, keywords),
        color_family, chars, keywords)

Square(n) == n * n

\* (distance * factor) ** 2 in units of 1/400: orders as the adjusted distance
AdjustedDistance(rgb, color_family, css, keywords) ==
    SquaredDistance(rgb, css.rgb)
        * Square(Adjustment(color_family, css.chars, keywords))

(***************************************************************************)
(* The loop over CSS_COLORS.items(): closest_color is replaced only when   *)
(* distance < min_distance, so after the loop it is the first catalog      *)
(* entry, in iteration order, whose adjusted distance is the minimum.      *)
(***************************************************************************)
\* the last entry of minimal distance: a loop that tests distance <= min_distance
LastMinimum(distance) ==
    CHOOSE i \in 1..Len(distance) :
        \A j \in 1..Len(distance) :
            \/ distance[i] < distance[j]
            \/ distance[i] = distance[j] /\ i >= j

FirstMinimum(distance) ==
    CHOOSE i \in 1..Len(distance) :
        \A j \in 1..Len(distance) :
            \/ distance[i] < distance[j]
            \/ distance[i] = distance[j] /\ i <= j

\* a division by 44.17 in the place of 441.67
NormalizedByTenth(distance) == <<25 * distance, 4417 * 4417>>

\* normalized_distance = min_distance / 441.67, squared, as the fraction
\* <<numerator, denominator>>: distance is min_distance squared in units of
\* 1/400, so the square of the quotient is distance * 25 / 44167^2
Normalized(distance) == <<25 * distance, 44167 * 44167>>

Closest(catalog, distance, closest) ==
    [css_color |-> catalog[closest].name,
     css_distance |-> Normalized(distance[closest])]

ClosestIn(catalog, distance) ==
    Closest(catalog, distance, FirstMinimum(distance))

\* a name only for the colours within a tenth of the cube's diagonal of a
\* catalog entry, "unknown" for the others
ClosestOfIfNear(rgb, color_family, catalog, keywords) ==
    CHOOSE css \in
        {IF 100 * c.css_distance[1] > c.css_distance[2]
         THEN [c EXCEPT !.css_color = "unknown"] ELSE c :
            c \in {ClosestIn(catalog,
                      [i \in 1..Len(catalog) |->
                          AdjustedDistance(rgb, color_family, catalog[i],
                                           keywords)])}} : TRUE

ClosestOf(rgb, color_family, catalog, keywords) ==
    ClosestIn(catalog,
              [i \in 1..Len(catalog) |->
                  AdjustedDistance(rgb, color_family, catalog[i], keywords)])

_find_closest_css_color(rgb) ==
    ClosestOf(rgb, ColorFamily(rgb), CSS_COLORS, family_keywords)

\* an analysis whose is_neutral looks at the saturation alone
AnalyzeNeutralBySaturation(rgb, hsl) ==
    LET h_deg == hsl.h_deg
        l == hsl.l
        s == hsl.s
        tone ==
            IF Lt(l, 15, 100) THEN "black"
            ELSE IF Gt(l, 85, 100) THEN "white"
            ELSE IF Lt(s, 15, 100) THEN "neutral"
            ELSE IF Lt(h_deg, 30, 1) \/ Ge(h_deg, 330, 1) THEN "red"
            ELSE IF Lt(h_deg, 60, 1) THEN "orange"
            ELSE IF Lt(h_deg, 90, 1) THEN "yellow"
            ELSE IF Lt(h_deg, 150, 1) THEN "green"
            ELSE IF Lt(h_deg, 210, 1) THEN "blue"
            ELSE IF Lt(h_deg, 270, 1) THEN "purple"
            ELSE IF Lt(h_deg, 330, 1) THEN "pink"
            ELSE "red"
        hue ==
            IF Lt(h_deg, 15, 1) \/ Ge(h_deg, 345, 1) THEN "red"
            ELSE IF Lt(h_deg, 45, 1) THEN "orange"
            ELSE IF Lt(h_deg, 75, 1) THEN "yellow"
            ELSE IF Lt(h_deg, 165, 1) THEN "green"
            ELSE IF Lt(h_deg, 255, 1) THEN "blue"
            ELSE IF Lt(h_deg, 285, 1) THEN "purple"
            ELSE IF Lt(h_deg, 315, 1) THEN "pink"
            ELSE "red"
        shade ==
            IF Lt(l, 2, 10) THEN "dark"
            ELSE IF Lt(l, 4, 10) THEN "medium-dark"
            ELSE IF Lt(l, 6, 10) THEN "medium"
            ELSE IF Lt(l, 8, 10) THEN "medium-light"
            ELSE "light"
        saturation ==
            IF Lt(s, 2, 10) THEN "muted"
            ELSE IF Lt(s, 5, 10) THEN "soft"
            ELSE IF Lt(s, 8, 10) THEN "vibrant"
            ELSE "intense"
        temperature ==
            IF Lt(h_deg, 90, 1) \/ Ge(h_deg, 270, 1) THEN "warm" ELSE "cool"
        is_neutral == Lt(s, 15, 100)
    IN  [tone |-> tone, hue |-> hue, shade |-> shade,
         saturation |-> saturation, temperature |-> temperature,
         is_neutral |-> is_neutral, lightness |-> l, saturation_value |-> s]

(***************************************************************************)
(* ColorExtractor._analyze_color.  The hsl triple is the one the callers   *)
(* pass: rgb_to_hls of the clamped rgb.                                    *)
(***************************************************************************)
_analyze_color(rgb, hsl) ==
    LET h_deg == hsl.h_deg
        l == hsl.l
        s == hsl.s
        tone ==
            IF Lt(l, 15, 100) THEN "black"
            ELSE IF Gt(l, 85, 100) THEN "white"
            ELSE IF Lt(s, 15, 100) THEN "neutral"
            ELSE IF Lt(h_deg, 30, 1) \/ Ge(h_deg, 330, 1) THEN "red"
            ELSE IF Lt(h_deg, 60, 1) THEN "orange"
            ELSE IF Lt(h_deg, 90, 1) THEN "yellow"
            ELSE IF Lt(h_deg, 150, 1) THEN "green"
            ELSE IF Lt(h_deg, 210, 1) THEN "blue"
            ELSE IF Lt(h_deg, 270, 1) THEN "purple"
            ELSE IF Lt(h_deg, 330, 1) THEN "pink"
            ELSE "red"
        hue ==
            IF Lt(h_deg, 15, 1) \/ Ge(h_deg, 345, 1) THEN "red"
            ELSE IF Lt(h_deg, 45, 1) THEN "orange"
            ELSE IF Lt(h_deg, 75, 1) THEN "yellow"
            ELSE IF Lt(h_deg, 165, 1) THEN "green"
            ELSE IF Lt(h_deg, 255, 1) THEN "blue"
            ELSE IF Lt(h_deg, 285, 1) THEN "purple"
            ELSE IF Lt(h_deg, 315, 1) THEN "pink"
            ELSE "red"
        shade ==
            IF Lt(l, 2, 10) THEN "dark"
            ELSE IF Lt(l, 4, 10) THEN "medium-dark"
            ELSE IF Lt(l, 6, 10) THEN "medium"
            ELSE IF Lt(l, 8, 10) THEN "medium-light"
            ELSE "light"
        saturation ==
            IF Lt(s, 2, 10) THEN "muted"
            ELSE IF Lt(s, 5, 10) THEN "soft"
            ELSE IF Lt(s, 8, 10) THEN "vibrant"
            ELSE "intense"
        temperature ==
            IF Lt(h_deg, 90, 1) \/ Ge(h_deg, 270, 1) THEN "warm" ELSE "cool"
        is_neutral == Lt(s, 15, 100) \/ Lt(l, 15, 100) \/ Gt(l, 85, 100)
    IN  [tone |-> tone, hue |-> hue, shade |-> shade,
         saturation |-> saturation, temperature |-> temperature,
         is_neutral |-> is_neutral, lightness |-> l, saturation_value |-> s]

\* a classifier whose first test is percentage >= 5
BackgroundFromFive(percentage, analysis) ==
    IF Gt(analysis.lightness, 9, 10) /\ percentage >= 5 THEN TRUE
    ELSE IF analysis.tone = "white" /\ percentage > 15 THEN TRUE
    ELSE IF percentage > 50 THEN TRUE
    ELSE IF Gt(analysis.lightness, 7, 10)
            /\ Lt(analysis.saturation_value, 1, 10)
            /\ percentage > 30 THEN TRUE
    ELSE FALSE

\* a classifier whose third test is percentage >= 50
BackgroundFromHalf(percentage, analysis) ==
    IF Gt(analysis.lightness, 9, 10) /\ percentage > 5 THEN TRUE
    ELSE IF analysis.tone = "white" /\ percentage > 15 THEN TRUE
    ELSE IF percentage >= 50 THEN TRUE
    ELSE IF Gt(analysis.lightness, 7, 10)
            /\ Lt(analysis.saturation_value, 1, 10)
            /\ percentage > 30 THEN TRUE
    ELSE FALSE

(***************************************************************************)
(* ColorExtractor._is_background_color: the four tests in the order of the *)
(* code, each returning True at once.                                      *)
(***************************************************************************)
_is_background_color(percentage, analysis) ==
    IF Gt(analysis.lightness, 9, 10) /\ percentage > 5 THEN TRUE
    ELSE IF analysis.tone = "white" /\ percentage > 15 THEN TRUE
    ELSE IF percentage > 50 THEN TRUE
    ELSE IF Gt(analysis.lightness, 7, 10)
            /\ Lt(analysis.saturation_value, 1, 10)
            /\ percentage > 30 THEN TRUE
    ELSE FALSE

\* the colours the clustering steps of a call are given to return
SampleColors ==
    {<<255, 255, 255>>, <<211, 211, 211>>, <<255, 0, 0>>}

\* the colours of the palettes get_dominant_colors_summary is applied to
SummaryColors ==
    SampleColors \cup {<<0, 0, 255>>, <<70, 130, 180>>}

\* the colours of the palettes the dominant colour is selected from: a black
\* of saturation 1, a colour on the threshold of neutrality (saturation
\* 0.15), two blues of saturation 0.4516 and 0.44, white and a light gray
ScoreColors ==
    {<<60, 0, 0>>, <<115, 100, 85>>, <<68, 130, 180>>, <<70, 130, 180>>,
     <<255, 255, 255>>, <<211, 211, 211>>}

\* the values of the catalog entries
CatalogColors == {CSS_COLORS[i].rgb : i \in 1..Len(CSS_COLORS)}

\* a grid over the RGB cube
GridColors == {<<r, g, b>> : r, g, b \in {0, 64, 128, 192, 255}}

\* the colours _find_closest_css_color is applied to on its own
\* colours far from every catalog entry, and two on a threshold of the
\* family detection
FarColors ==
    {<<71, 8, 56>>, <<71, 7, 56>>, <<50, 45, 30>>, <<75, 10, 60>>,
     <<217, 217, 217>>, <<38, 38, 38>>}

MatchColors == GridColors \cup CatalogColors \cup FarColors

\* _find_closest_css_color on the colours of the model, computed once
ClosestCssColor ==
    [rgb \in SummaryColors \cup ScoreColors \cup {<<128, 128, 128>>}
                \cup MatchColors |->
        _find_closest_css_color(rgb)]

(***************************************************************************)
(* The color_data dictionary both clustering paths build for one cluster   *)
(* (extract_colors_from_image and _extract_colors_sklearn build the same). *)
(***************************************************************************)
ColorData(color, percentage) ==
    LET rgb == ClampRgb(color)
        hsl == rgb_to_hls(rgb)
        hsv == rgb_to_hsv(rgb)
        color_analysis == _analyze_color(rgb, hsl)
        css == ClosestCssColor[rgb]
    IN  [rgb |-> rgb,
         hex |-> HexColor(rgb),
         css_color |-> css.css_color,
         css_distance |-> css.css_distance,
         hsl |-> [hue |-> hsl.h_deg,
                  saturation |-> Times(hsl.s, 100),
                  lightness |-> Times(hsl.l, 100)],
         hsv |-> [hue |-> hsv.h_deg,
                  saturation |-> Times(hsv.s, 100),
                  value |-> Times(hsv.v, 100)],
         analysis |-> color_analysis,
         percentage |-> percentage,
         is_background |-> _is_background_color(percentage, color_analysis)]

\* a fallback entry that is flagged background
FallbackFlagged ==
    [ColorData(<<128, 128, 128>>, 0) EXCEPT !.is_background = TRUE]

\* "Create a fallback color entry": mid-gray, percentage 0, flag False
FallbackColorData ==
    LET fallback_rgb == <<128, 128, 128>>
        \* colorsys.rgb_to_hls(0.5, 0.5, 0.5): hue 0, lightness 1/2, saturation 0
        fallback_hsl == [h_deg |-> <<0, 1>>, l |-> <<1, 2>>, s |-> <<0, 1>>]
        fallback_hsv == [h_deg |-> <<0, 1>>, s |-> <<0, 1>>, v |-> <<1, 2>>]
        fallback_analysis == _analyze_color(fallback_rgb, fallback_hsl)
        css == ClosestCssColor[fallback_rgb]
    IN  [rgb |-> fallback_rgb,
         hex |-> "#808080",
         css_color |-> css.css_color,
         css_distance |-> css.css_distance,
         hsl |-> [hue |-> fallback_hsl.h_deg,
                  saturation |-> Times(fallback_hsl.s, 100),
                  lightness |-> Times(fallback_hsl.l, 100)],
         hsv |-> [hue |-> fallback_hsv.h_deg,
                  saturation |-> Times(fallback_hsv.s, 100),
                  value |-> Times(fallback_hsv.v, 100)],
         analysis |-> fallback_analysis,
         percentage |-> 0,
         is_background |-> FALSE]

(***************************************************************************)
(* The summary builder.                                                    *)
(***************************************************************************)
\* Python's None (a dominant_color that is not set, a result not yet returned)
None == [is_none |-> TRUE]

\* [c for c in seq if keep(c)], for the short sequences of a palette
RECURSIVE NotBackground(_)
NotBackground(colors) ==
    IF colors = <<>> THEN <<>>
    ELSE IF ~Head(colors).is_background
         THEN <<Head(colors)>> \o NotBackground(Tail(colors))
         ELSE NotBackground(Tail(colors))

\* a palette handed on with its background entries
KeepBackground(colors) == colors

\* ColorExtractor._remove_background_color
_remove_background_color(colors) ==
    LET filtered_colors == NotBackground(colors)
    IN  IF filtered_colors = <<>> /\ colors # <<>>
        THEN <<colors[1]>>
        ELSE filtered_colors

\* a score whose neutral penalty is -10
ColorScorePenaltyTen(color_data) ==
    LET analysis == color_data.analysis
        saturation == analysis.saturation_value
        neutral_penalty == IF ~analysis.is_neutral THEN 0 ELSE -10
    IN  Frac((neutral_penalty * 10 + color_data.percentage) * saturation[2]
                 + 1000 * saturation[1],
             10 * saturation[2])

(***************************************************************************)
(* color_score of get_dominant_colors_summary:                             *)
(*   neutral_penalty + saturation * 100 + percentage * 0.1                 *)
(* as an exact rational.                                                   *)
(***************************************************************************)
color_score(color_data) ==
    LET analysis == color_data.analysis
        saturation == analysis.saturation_value
        neutral_penalty == IF ~analysis.is_neutral THEN 0 ELSE -1000
    IN  Frac((neutral_penalty * 10 + color_data.percentage) * saturation[2]
                 + 1000 * saturation[1],
             10 * saturation[2])

\* a >= b for two scores
ScoreGe(a, b) == a[1] * b[2] >= b[1] * a[2]

\* a sort that is not stable: an entry goes before the entries of its score
RECURSIVE InsertBeforeEqual(_, _)
InsertBeforeEqual(e, sorted) ==
    IF sorted = <<>> THEN <<e>>
    ELSE IF ScoreGe(color_score(e), color_score(Head(sorted)))
         THEN <<e>> \o sorted
         ELSE <<Head(sorted)>> \o InsertBeforeEqual(e, Tail(sorted))

(***************************************************************************)
(* sorted(filtered_colors, key=color_score, reverse=True).  Python's sort  *)
(* is stable, also with reverse=True: entries of equal score keep their    *)
(* order.  Insert places an entry behind every entry whose score is at     *)
(* least its own.                                                          *)
(***************************************************************************)
RECURSIVE Insert(_, _)
Insert(e, sorted) ==
    IF sorted = <<>> THEN <<e>>
    ELSE IF ScoreGe(color_score(Head(sorted)), color_score(e))
         THEN <<Head(sorted)>> \o Insert(e, Tail(sorted))
         ELSE <<e>> \o sorted

RECURSIVE SortedByScore(_)
SortedByScore(colors) ==
    IF colors = <<>> THEN <<>>
    ELSE Insert(colors[Len(colors)],
                SortedByScore(SubSeq(colors, 1, Len(colors) - 1)))

\* The entry of the palette picked as dominant_color (the local variable)
DominantEntry(colors_data) ==
    LET removed == _remove_background_color(colors_data)
        filtered_colors == IF removed = <<>> THEN colors_data ELSE removed
        sorted_colors == SortedByScore(filtered_colors)
    IN  IF sorted_colors # <<>> THEN sorted_colors[1] ELSE colors_data[1]

\* counts[key] = 1 in the place of counts.get(key, 0) + 1
RECURSIVE IncrementToOne(_, _)
IncrementToOne(counts, key) ==
    IF counts = <<>> THEN << <<key, 1>> >>
    ELSE IF Head(counts)[1] = key
         THEN << <<key, 1>> >> \o Tail(counts)
         ELSE <<Head(counts)>> \o IncrementToOne(Tail(counts), key)

(***************************************************************************)
(* counts[key] = counts.get(key, 0) + 1 over a sequence of keys: a Python  *)
(* dict, as the sequence of its items <<key, count>> in insertion order.   *)
(***************************************************************************)
RECURSIVE Increment(_, _)
Increment(counts, key) ==
    IF counts = <<>> THEN << <<key, 1>> >>
    ELSE IF Head(counts)[1] = key
         THEN << <<key, Head(counts)[2] + 1>> >> \o Tail(counts)
         ELSE <<Head(counts)>> \o Increment(Tail(counts), key)

RECURSIVE Tally(_)
Tally(keys) ==
    IF keys = <<>> THEN <<>>
    ELSE Increment(Tally(SubSeq(keys, 1, Len(keys) - 1)), keys[Len(keys)])

\* max(counts.items(), key=lambda x: x[1])[0]: the first item of largest count
RECURSIVE MaxItem(_)
MaxItem(counts) ==
    IF Len(counts) = 1 THEN counts[1]
    ELSE LET rest == MaxItem(Tail(counts))
         IN  IF Head(counts)[2] >= rest[2] THEN Head(counts) ELSE rest

Overall(counts) == IF counts # <<>> THEN MaxItem(counts)[1] ELSE "unknown"

\* a warm_count that leaves the neutral entries out
WarmCountChromatic(colors_data) ==
    Cardinality({i \in 1..Len(colors_data) :
                    /\ colors_data[i].analysis.temperature = "warm"
                    /\ ~colors_data[i].analysis.is_neutral})

\* warm_count, cool_count and neutral_count after the loop over colors_data
WarmCount(colors_data) ==
    Cardinality({i \in 1..Len(colors_data) :
                    colors_data[i].analysis.temperature = "warm"})

CoolCount(colors_data) ==
    Cardinality({i \in 1..Len(colors_data) :
                    ~(colors_data[i].analysis.temperature = "warm")})

NeutralCount(colors_data) ==
    Cardinality({i \in 1..Len(colors_data) :
                    colors_data[i].analysis.is_neutral})

\* a dominant_color dictionary whose tone is read from the wrong key
DominantColorWrongKey(dominant_color) ==
    [rgb |-> dominant_color.rgb,
     hex |-> dominant_color.hex,
     css_color |-> dominant_color.css_color,
     tone |-> dominant_color.analysis.hue,
     hue |-> dominant_color.analysis.hue,
     shade |-> dominant_color.analysis.shade,
     percentage |-> dominant_color.percentage]

\* the 'dominant_color' dictionary of the summary
DominantColor(dominant_color) ==
    [rgb |-> dominant_color.rgb,
     hex |-> dominant_color.hex,
     css_color |-> dominant_color.css_color,
     tone |-> dominant_color.analysis.tone,
     hue |-> dominant_color.analysis.hue,
     shade |-> dominant_color.analysis.shade,
     percentage |-> dominant_color.percentage]

\* ColorExtractor.get_dominant_colors_summary
get_dominant_colors_summary(colors_data) ==
    IF colors_data = <<>>
    THEN [dominant_color |-> None,
          overall_tone |-> "unknown",
          overall_hue |-> "unknown",
          overall_shade |-> "unknown",
          color_count |-> 0,
          neutral_colors |-> 0,
          warm_colors |-> 0,
          cool_colors |-> 0]
    ELSE LET n == Len(colors_data)
             tone_counts == Tally([i \in 1..n |-> colors_data[i].analysis.tone])
             hue_counts == Tally([i \in 1..n |-> colors_data[i].analysis.hue])
             shade_counts ==
                 Tally([i \in 1..n |-> colors_data[i].analysis.shade])
             css_color_counts == Tally([i \in 1..n |-> colors_data[i].css_color])
         IN  [dominant_color |-> DominantColor(DominantEntry(colors_data)),
              overall_tone |-> Overall(tone_counts),
              overall_hue |-> Overall(hue_counts),
              overall_shade |-> Overall(shade_counts),
              overall_css_color |-> Overall(css_color_counts),
              color_count |-> n,
              neutral_colors |-> NeutralCount(colors_data),
              warm_colors |-> WarmCount(colors_data),
              cool_colors |-> CoolCount(colors_data),
              tone_distribution |-> tone_counts,
              hue_distribution |-> hue_counts,
              shade_distribution |-> shade_counts,
              css_color_distribution |-> css_color_counts]

(***************************************************************************)
(* The call extract_colors_from_product_image(image_url, palette_size).    *)
(***************************************************************************)
VARIABLES
    pc,                 \* where the call is
    palette_size,       \* ColorExtractor.palette_size
    PYLETTE_AVAILABLE,  \* the module's flag (extract_colors is None without it)
    colors_data,        \* the palette extract_colors_from_url returned
    path,               \* the clustering path the palette came from
    produced,           \* how many clusters that path's clustering step gave
    raised,             \* the place whose exception reached the call's handler
    result,             \* the dictionary the call returned
    probe               \* one application of _is_background_color

vars == <<pc, palette_size, PYLETTE_AVAILABLE, colors_data, path, produced,
          raised, result, probe>>

\* image.resize((150, 150)): the side of the grid KMeans clusters
ResizeSide == 150

\* len(pixels)
total_pixels == ResizeSide * ResizeSide

\* a colour without channels: rgb[0] raises, as any colour does whose
\* processing fails
InvalidColor == <<>>

\* a Pylette colour: rgb, and the percentage attribute where it has one
PyletteColors ==
    [rgb : SampleColors \cup {InvalidColor}, has_percentage : {FALSE},
     percentage : {0}]
    \cup [rgb : SampleColors, has_percentage : {TRUE}, percentage : {20, 60}]

\* getattr(color, 'percentage', 0)
GetPercentage(color) == IF color.has_percentage THEN color.percentage ELSE 0

\* sequences over S of length lo..hi
SeqsOf(S, lo, hi) == UNION {[1..n -> S] : n \in lo..hi}

RECURSIVE SumSeq(_)
SumSeq(s) == IF s = <<>> THEN 0 ELSE Head(s) + SumSeq(Tail(s))

\* kmeans.labels_ by cluster: how many pixels each of the n clusters got,
\* in tenths of the grid; a cluster may get none
LabelCounts(n) ==
    {m \in [1..n -> {k * (total_pixels \div 10) : k \in 0..10}] :
        SumSeq(m) = total_pixels}

\* np.unique(labels, return_counts=True)[1]: the counts of the labels that
\* occur, in label order
RECURSIVE UniqueCounts(_)
UniqueCounts(members) ==
    IF members = <<>> THEN <<>>
    ELSE IF Head(members) > 0
         THEN <<Head(members)>> \o UniqueCounts(Tail(members))
         ELSE UniqueCounts(Tail(members))

\* (count / total_pixels) * 100
Percentage(count) == (count * 100) \div total_pixels

\* the try blocks, were get_dominant_colors_summary called outside the try
\* of extract_colors_from_product_image
TryBlocksSummaryOutside(site) ==
    CASE site = "download" ->
             <<"download_image", "extract_colors_from_product_image">>
      [] site = "convert" ->
             <<"extract_colors_from_product_image">>
      [] site = "pylette" ->
             <<"extract_colors_from_image",
               "extract_colors_from_product_image">>
      [] site = "pylette_color" ->
             <<"pylette_color", "extract_colors_from_image",
               "extract_colors_from_product_image">>
      [] site = "sklearn" ->
             <<"_extract_colors_sklearn",
               "extract_colors_from_product_image">>
      [] site = "sklearn_color" ->
             <<"sklearn_color", "_extract_colors_sklearn",
               "extract_colors_from_product_image">>
      [] site = "summary" -> <<>>

\* the try blocks, were the Pylette path not in a try of its own
TryBlocksNoFallback(site) ==
    CASE site = "download" ->
             <<"download_image", "extract_colors_from_product_image">>
      [] site = "convert" ->
             <<"extract_colors_from_product_image">>
      [] site = "pylette" ->
             <<"extract_colors_from_product_image">>
      [] site = "pylette_color" ->
             <<"pylette_color", "extract_colors_from_product_image">>
      [] site = "sklearn" ->
             <<"_extract_colors_sklearn",
               "extract_colors_from_product_image">>
      [] site = "sklearn_color" ->
             <<"sklearn_color", "_extract_colors_sklearn",
               "extract_colors_from_product_image">>
      [] site = "summary" ->
             <<"extract_colors_from_product_image">>

(***************************************************************************)
(* try/except.  Every handler of the module is "except Exception", so an   *)
(* exception is caught by the innermost try block around the place that    *)
(* raises it.  TryBlocks lists the try blocks around each place, innermost *)
(* first, by the function (or loop body) that holds the block.             *)
(***************************************************************************)
TryBlocks(site) ==
    CASE site = "download" ->
             <<"download_image", "extract_colors_from_product_image">>
      [] site = "convert" ->
             <<"extract_colors_from_product_image">>
      [] site = "pylette" ->
             <<"extract_colors_from_image",
               "extract_colors_from_product_image">>
      [] site = "pylette_color" ->
             <<"pylette_color", "extract_colors_from_image",
               "extract_colors_from_product_image">>
      [] site = "sklearn" ->
             <<"_extract_colors_sklearn",
               "extract_colors_from_product_image">>
      [] site = "sklearn_color" ->
             <<"sklearn_color", "_extract_colors_sklearn",
               "extract_colors_from_product_image">>
      [] site = "summary" ->
             <<"extract_colors_from_product_image">>

Handler(site) ==
    IF TryBlocks(site) = <<>> THEN "nothing" ELSE Head(TryBlocks(site))

\* an empty palette reported as a success
NoColorsResultSuccess ==
    [success |-> TRUE, colors |-> <<>>, summary |-> [dominant_color |-> None]]

\* the dictionary returned when colors_data is empty
NoColorsResult ==
    [success |-> FALSE,
     error |-> "No colors extracted",
     colors |-> <<>>,
     summary |-> [dominant_color |-> None,
                  overall_tone |-> "unknown",
                  overall_hue |-> "unknown",
                  overall_shade |-> "unknown",
                  color_count |-> 0,
                  neutral_colors |-> 0]]

\* the dictionary returned by "except Exception as e"
ExceptionResult(e) ==
    [success |-> FALSE,
     error |-> e,
     colors |-> <<>>,
     summary |-> [dominant_color |-> None,
                  overall_tone |-> "unknown",
                  overall_hue |-> "unknown",
                  overall_shade |-> "unknown",
                  color_count |-> 0,
                  neutral_colors |-> 0]]

\* the dictionary returned with a palette and its summary
SuccessResult(colors, summary) ==
    [success |-> TRUE, colors |-> colors, summary |-> summary]

\* a return of colors_data without the slice
TruncateNothing(colors, size) == colors

\* colors_data[:self.palette_size], for palette_size >= 0
Truncate(colors, size) ==
    SubSeq(colors, 1, IF Len(colors) < size THEN Len(colors) ELSE size)

(***************************************************************************)
(* Where an exception raised at site takes the call: into the handler that *)
(* catches it, or out of extract_colors_from_product_image.                *)
(***************************************************************************)
Unwind(site) ==
    LET h == Handler(site)
    IN  CASE h = "download_image" ->
                 \* return None; extract_colors_from_url returns []
                 /\ pc' = "extracted"
                 /\ colors_data' = <<>>
                 /\ UNCHANGED <<path, produced, raised, result>>
          [] h = "extract_colors_from_image" ->
                 \* "Falling back to sklearn method..."
                 /\ pc' = "sklearn"
                 /\ UNCHANGED <<colors_data, path, produced, raised, result>>
          [] h = "_extract_colors_sklearn" ->
                 \* return []
                 /\ pc' = "extracted"
                 /\ colors_data' = <<>>
                 /\ path' = "sklearn"
                 /\ UNCHANGED <<produced, raised, result>>
          [] h = "extract_colors_from_product_image" ->
                 /\ pc' = "done"
                 /\ raised' = site
                 /\ result' = ExceptionResult(site)
                 /\ UNCHANGED <<colors_data, path, produced>>
          [] OTHER ->
                 /\ pc' = "propagated"
                 /\ UNCHANGED <<colors_data, path, produced, raised, result>>

\* download_image: the image, or None after any exception
DownloadImage ==
    /\ pc = "call"
    /\ \E ok \in BOOLEAN :
           IF ok
           THEN /\ pc' = "image"
                /\ UNCHANGED <<colors_data, path, produced, raised, result>>
           ELSE Unwind("download")
    /\ UNCHANGED <<palette_size, PYLETTE_AVAILABLE, probe>>

\* extract_colors_from_image: image.convert('RGB'), then the choice of path
ConvertImage ==
    /\ pc = "image"
    /\ \E ok \in BOOLEAN :
           IF ok
           THEN /\ pc' = IF PYLETTE_AVAILABLE THEN "pylette" ELSE "sklearn"
                /\ UNCHANGED <<colors_data, path, produced, raised, result>>
           ELSE Unwind("convert")
    /\ UNCHANGED <<palette_size, PYLETTE_AVAILABLE, probe>>

\* the loop over the Pylette palette: a colour that raises is skipped
RECURSIVE PyletteColorsData(_)
PyletteColorsData(palette) ==
    IF palette = <<>> THEN <<>>
    ELSE IF Head(palette).rgb # InvalidColor
         THEN <<ColorData(Head(palette).rgb, GetPercentage(Head(palette)))>>
              \o PyletteColorsData(Tail(palette))
         ELSE PyletteColorsData(Tail(palette))

\* the primary path of extract_colors_from_image
ExtractPylette ==
    /\ pc = "pylette"
    /\ \/ Unwind("pylette")                        \* extract_colors raises
       \/ \E palette \in SeqsOf(PyletteColors, 0, palette_size + 1) :
              LET data == PyletteColorsData(palette)
                  raises == \E i \in 1..Len(palette) : palette[i].rgb = InvalidColor
              IN  IF raises /\ Handler("pylette_color") # "pylette_color"
                  THEN Unwind("pylette_color")
                  ELSE IF data # <<>>
                  THEN /\ pc' = "extracted"
                       /\ colors_data' = Truncate(data, palette_size)
                       /\ path' = "pylette"
                       /\ produced' = Len(palette)
                       /\ UNCHANGED <<raised, result>>
                  ELSE Unwind("pylette")           \* "no valid colors"
    /\ UNCHANGED <<palette_size, PYLETTE_AVAILABLE, probe>>

\* the loop over zip(colors, counts): a cluster that raises gets the
\* fallback entry
RECURSIVE SklearnColorsData(_, _)
SklearnColorsData(colors, counts) ==
    IF colors = <<>> \/ counts = <<>> THEN <<>>
    ELSE <<IF Head(colors) = InvalidColor THEN FallbackColorData
           ELSE ColorData(Head(colors), Percentage(Head(counts)))>>
         \o SklearnColorsData(Tail(colors), Tail(counts))

\* _extract_colors_sklearn
ExtractSklearn ==
    /\ pc = "sklearn"
    /\ \/ Unwind("sklearn")                        \* resize or KMeans raises
       \/ \E colors \in [1..(palette_size + 1) ->
                              SampleColors \cup {InvalidColor}],
             members \in LabelCounts(palette_size + 1) :
              LET counts == UniqueCounts(members)
                  data == SklearnColorsData(colors, counts)
                  raises == \E i \in 1..Len(counts) : colors[i] = InvalidColor
              IN  IF raises /\ Handler("sklearn_color") # "sklearn_color"
                  THEN Unwind("sklearn_color")
                  ELSE /\ pc' = "extracted"
                       /\ colors_data' = Truncate(data, palette_size)
                       /\ path' = "sklearn"
                       /\ produced' = Len(counts)
                       /\ UNCHANGED <<raised, result>>
    /\ UNCHANGED <<palette_size, PYLETTE_AVAILABLE, probe>>

\* back in extract_colors_from_product_image with colors_data
Summarise ==
    /\ pc = "extracted"
    /\ IF colors_data = <<>>
       THEN /\ pc' = "done"
            /\ result' = NoColorsResult
            /\ UNCHANGED <<colors_data, path, produced, raised>>
       ELSE \E ok \in BOOLEAN :
                IF ok
                THEN /\ pc' = "done"
                     /\ result' =
                            SuccessResult(colors_data,
                                get_dominant_colors_summary(colors_data))
                     /\ UNCHANGED <<colors_data, path, produced, raised>>
                ELSE Unwind("summary")
    /\ UNCHANGED <<palette_size, PYLETTE_AVAILABLE, probe>>

NoProbe == [percentage |-> 0, analysis |-> None, is_background |-> None]

Init ==
    /\ pc = "call"
    /\ palette_size \in 1..MaxPaletteSize
    /\ PYLETTE_AVAILABLE \in BOOLEAN
    /\ colors_data = <<>>
    /\ path = "none"
    /\ produced = 0
    /\ raised = "none"
    /\ result = None
    /\ probe = NoProbe

Next ==
    \/ DownloadImage
    \/ ConvertImage
    \/ ExtractPylette
    \/ ExtractSklearn
    \/ Summarise

Spec == Init /\ [][Next]_vars

(***************************************************************************)
(* get_dominant_colors_summary on its own: a palette of entries the        *)
(* extractor builds, one entry at a time, then its summary in result.      *)
(***************************************************************************)
\* the percentages of the entries of those palettes
SummaryPercentages == {0, 40, 60}

AppendColor ==
    /\ pc = "palette"
    /\ Len(colors_data) < MaxPaletteLen
    /\ \/ \E rgb \in SummaryColors, percentage \in SummaryPercentages :
              colors_data' = Append(colors_data, ColorData(rgb, percentage))
       \/ colors_data' = Append(colors_data, FallbackColorData)
    /\ UNCHANGED <<pc, palette_size, PYLETTE_AVAILABLE, path, produced,
                   raised, result, probe>>

SummarisePalette ==
    /\ pc = "palette"
    /\ pc' = "summarised"
    /\ result' = get_dominant_colors_summary(colors_data)
    /\ UNCHANGED <<palette_size, PYLETTE_AVAILABLE, colors_data, path,
                   produced, raised, probe>>

SummaryInit ==
    /\ pc = "palette"
    /\ palette_size = MaxPaletteLen
    /\ PYLETTE_AVAILABLE = FALSE
    /\ colors_data = <<>>
    /\ path = "none"
    /\ produced = 0
    /\ raised = "none"
    /\ result = None
    /\ probe = NoProbe

SummaryNext == AppendColor \/ SummarisePalette

SpecSummary == SummaryInit /\ [][SummaryNext]_vars

(***************************************************************************)
(* _is_background_color on its own: any percentage with any analysis, on   *)
(* both sides of every threshold.                                          *)
(***************************************************************************)
ProbePercentages == {0, 5, 6, 15, 16, 30, 31, 50, 51, 100}

ProbeAnalyses ==
    [tone : {"white", "neutral", "red"},
     lightness : {<<1, 2>>, <<7, 10>>, <<71, 100>>, <<9, 10>>, <<91, 100>>},
     saturation_value : {<<0, 1>>, <<9, 100>>, <<1, 10>>, <<1, 1>>}]

ClassifyBackground ==
    /\ pc = "probe"
    /\ pc' = "classified"
    /\ probe' = [probe EXCEPT !.is_background =
                     _is_background_color(probe.percentage, probe.analysis)]
    /\ UNCHANGED <<palette_size, PYLETTE_AVAILABLE, colors_data, path,
                   produced, raised, result>>

BackgroundInit ==
    /\ pc = "probe"
    /\ palette_size = 1
    /\ PYLETTE_AVAILABLE = FALSE
    /\ colors_data = <<>>
    /\ path = "none"
    /\ produced = 0
    /\ raised = "none"
    /\ result = None
    /\ probe \in [percentage : ProbePercentages, analysis : ProbeAnalyses,
                  is_background : {None}]

SpecBackground == BackgroundInit /\ [][ClassifyBackground]_vars

(***************************************************************************)
(* _find_closest_css_color on its own: one colour, then its reference      *)
(* colour and normalised distance in probe.                                *)
(***************************************************************************)
FindClosest ==
    /\ pc = "rgb"
    /\ pc' = "matched"
    /\ probe' = [probe EXCEPT !.css = ClosestCssColor[probe.rgb]]
    /\ UNCHANGED <<palette_size, PYLETTE_AVAILABLE, colors_data, path,
                   produced, raised, result>>

MatchInit ==
    /\ pc = "rgb"
    /\ palette_size = 1
    /\ PYLETTE_AVAILABLE = FALSE
    /\ colors_data = <<>>
    /\ path = "none"
    /\ produced = 0
    /\ raised = "none"
    /\ result = None
    /\ probe \in [rgb : MatchColors, css : {None}]

SpecMatch == MatchInit /\ [][FindClosest]_vars

(***************************************************************************)
(* Several images handled one after the other by one ColorExtractor, on    *)
(* the KMeans path.  KMeans is built with random_state=42, so what it      *)
(* finds in a pixel grid (the cluster centres and the labels) is a         *)
(* function of the grid and of n_clusters: a grid is given here by what    *)
(* KMeans finds in it.  probe remembers the grid and the result of the     *)
(* first call, the grid of the latest call, and whether another grid came  *)
(* in between.                                                             *)
(***************************************************************************)
RepeatColors == {<<255, 255, 255>>, <<255, 0, 0>>}

\* the first two centres vary; the labels are all of the first cluster, all
\* of the second, or half of each
RepeatGrids(n) ==
    [colors : {c \in [1..n -> RepeatColors] :
                  \A i \in 3..n : c[i] = <<255, 255, 255>>},
     members : {[i \in 1..n |-> IF i = 1 THEN total_pixels ELSE 0],
                [i \in 1..n |-> IF i = 2 THEN total_pixels ELSE 0],
                [i \in 1..n |-> IF i <= 2 THEN total_pixels \div 2 ELSE 0]}]

\* a list that is kept from one call to the next
KeptColorsData(previous) == previous

\* colors_data = []: the list of a call is new, whatever the previous call
\* left
FreshColorsData(previous) == <<>>

FallbackCall ==
    /\ pc = "idle"
    /\ produced < MaxCalls
    /\ \E grid \in RepeatGrids(palette_size + 1) :
           LET palette ==
                   Truncate(FreshColorsData(colors_data)
                                \o SklearnColorsData(grid.colors,
                                       UniqueCounts(grid.members)),
                            palette_size)
               returned ==
                   SuccessResult(palette, get_dominant_colors_summary(palette))
           IN  /\ colors_data' = palette
               /\ result' = returned
               /\ probe' =
                      [grid |-> grid,
                       first |-> IF probe.first = None
                                 THEN [grid |-> grid, result |-> returned]
                                 ELSE probe.first,
                       between |-> /\ probe.first # None
                                   /\ \/ probe.between
                                      \/ grid # probe.first.grid]
    /\ produced' = produced + 1
    /\ UNCHANGED <<pc, palette_size, PYLETTE_AVAILABLE, path, raised>>

RepeatInit ==
    /\ pc = "idle"
    /\ palette_size \in 1..MaxPaletteSize
    /\ PYLETTE_AVAILABLE = FALSE
    /\ colors_data = <<>>
    /\ path = "sklearn"
    /\ produced = 0
    /\ raised = "none"
    /\ result = None
    /\ probe = [grid |-> None, first |-> None, between |-> FALSE]

SpecRepeat == RepeatInit /\ [][FallbackCall]_vars

(***************************************************************************)
(* _analyze_color on its own: any hue, lightness and saturation, on both   *)
(* sides of every threshold and on the thresholds; then its dictionary in  *)
(* probe.  rgb is unpacked by the code and not read.                       *)
(***************************************************************************)
AnalyzeLightness ==
    {<<0, 1>>, <<14, 100>>, <<15, 100>>, <<19, 100>>, <<2, 10>>, <<39, 100>>,
     <<4, 10>>, <<59, 100>>, <<6, 10>>, <<79, 100>>, <<8, 10>>, <<85, 100>>,
     <<86, 100>>, <<1, 1>>}

AnalyzeSaturation ==
    {<<0, 1>>, <<14, 100>>, <<15, 100>>, <<19, 100>>, <<2, 10>>, <<49, 100>>,
     <<5, 10>>, <<79, 100>>, <<8, 10>>, <<1, 1>>}

AnalyzeHue ==
    {<<d, 1>> : d \in {0, 14, 15, 29, 30, 44, 45, 59, 60, 74, 75, 89, 90,
                       149, 150, 164, 165, 194, 195, 209, 210, 254, 255,
                       269, 270, 284, 285, 314, 315, 329, 330, 344, 345, 359}}
        \cup {<<599, 20>>, <<6599, 20>>}

AnalyzeColor ==
    /\ pc = "hsl"
    /\ pc' = "analyzed"
    /\ probe' = [probe EXCEPT !.analysis = _analyze_color(probe.rgb, probe.hsl)]
    /\ UNCHANGED <<palette_size, PYLETTE_AVAILABLE, colors_data, path,
                   produced, raised, result>>

AnalyzeInit ==
    /\ pc = "hsl"
    /\ palette_size = 1
    /\ PYLETTE_AVAILABLE = FALSE
    /\ colors_data = <<>>
    /\ path = "none"
    /\ produced = 0
    /\ raised = "none"
    /\ result = None
    /\ probe \in [rgb : {<<128, 128, 128>>},
                  hsl : [h_deg : AnalyzeHue, l : AnalyzeLightness,
                         s : AnalyzeSaturation],
                  analysis : {None}]

SpecAnalyze == AnalyzeInit /\ [][AnalyzeColor]_vars

(***************************************************************************)
(* One colour of a palette on its own: the dictionary the extraction loop  *)
(* builds for it (its analysis and its reference colour), with the family  *)
(* _find_closest_css_color detects for it on the way.                      *)
(***************************************************************************)
BuildColorData ==
    /\ pc = "color"
    /\ pc' = "built"
    /\ probe' = [probe EXCEPT !.color_family = ColorFamily(probe.rgb),
                              !.color_data = ColorData(probe.rgb, 0)]
    /\ UNCHANGED <<palette_size, PYLETTE_AVAILABLE, colors_data, path,
                   produced, raised, result>>

ColorInit ==
    /\ pc = "color"
    /\ palette_size = 1
    /\ PYLETTE_AVAILABLE = TRUE
    /\ colors_data = <<>>
    /\ path = "none"
    /\ produced = 0
    /\ raised = "none"
    /\ result = None
    /\ probe \in [rgb : MatchColors, color_family : {None}, color_data : {None}]

SpecColor == ColorInit /\ [][BuildColorData]_vars

(***************************************************************************)
(* The selection of the dominant colour on palettes whose entries differ   *)
(* little in saturation and much in percentage, or are neutral with a high *)
(* saturation.                                                             *)
(***************************************************************************)
ScorePercentages == {0, 5, 40}

AppendScored ==
    /\ pc = "palette"
    /\ Len(colors_data) < MaxPaletteLen
    /\ \E rgb \in ScoreColors, percentage \in ScorePercentages :
           colors_data' = Append(colors_data, ColorData(rgb, percentage))
    /\ UNCHANGED <<pc, palette_size, PYLETTE_AVAILABLE, path, produced,
                   raised, result, probe>>

DominantNext == AppendScored \/ SummarisePalette

SpecDominant == SummaryInit /\ [][DominantNext]_vars

(***************************************************************************)
(* bulk_product_collector: the loop of collect_all_products_batch_upload   *)
(* over the products of a clothing type.  probe holds the locals of the    *)
(* run: batch_size, current_batch, batch_number, stats and                 *)
(* clothing_type_stats; last is what process_single_product did for the    *)
(* latest product, and result the color_data it was given.                 *)
(***************************************************************************)
\* d.get(key, default)
DictGet(d, key, default) == IF key \in DOMAIN d THEN d[key] ELSE default

\* the empty dictionary {}
EmptyDict == <<>>

\* color_data['summary'].get('dominant_color', {}).get(key, ''): the second
\* get is called on what the first returns, and None has no get
DominantGet(summary, key) ==
    LET dominant_color == DictGet(summary, "dominant_color", EmptyDict)
    IN  IF dominant_color = None
        THEN [raised |-> "AttributeError"]
        ELSE [raised |-> "none", value |-> DictGet(dominant_color, key, "")]

\* the product of index i in the listing, and the details of its page
Product(i) ==
    [name |-> "product", url |-> i, image_url |-> "image", price |-> "price"]

DetailedInfo ==
    [material |-> "material", description |-> "description",
     article_number |-> "article_number",
     manufacturing_info |-> "manufacturing_info"]

(***************************************************************************)
(* process_single_product, given what find_packshot_image,                 *)
(* modify_image_url_to_packshot and extract_colors_from_product_image      *)
(* return: the product record, or the exception the dictionary display     *)
(* raises.  packshot_img_url is "" when find_packshot_image returns None.   *)
(***************************************************************************)
process_single_product(product, clothing_type, packshot_img_url, modified_img_url, color_data) ==
    LET detailed_info == DetailedInfo
        packshot_found ==
            IF packshot_img_url # "" THEN TRUE
            ELSE modified_img_url # product.image_url
        final_img_url ==
            IF packshot_img_url # "" THEN packshot_img_url
            ELSE IF modified_img_url # product.image_url
                 THEN modified_img_url
                 ELSE product.image_url
        summary == color_data.summary
        hex == DominantGet(summary, "hex")
        rgb == DominantGet(summary, "rgb")
        css_color == DominantGet(summary, "css_color")
    IN  IF hex.raised # "none" THEN [raised |-> hex.raised]
        ELSE IF rgb.raised # "none" THEN [raised |-> rgb.raised]
        ELSE IF css_color.raised # "none" THEN [raised |-> css_color.raised]
        ELSE [raised |-> "none",
              value |->
                  [clothing_type |-> clothing_type,
                   name |-> product.name,
                   url |-> product.url,
                   original_url |-> product.url,
                   image_url |-> final_img_url,
                   original_image_url |-> product.image_url,
                   packshot_found |-> packshot_found,
                   price |-> product.price,
                   material |-> detailed_info.material,
                   description |-> detailed_info.description,
                   article_number |-> detailed_info.article_number,
                   manufacturing_info |-> detailed_info.manufacturing_info,
                   dominant_color_hex |-> hex.value,
                   dominant_color_rgb |-> rgb.value,
                   dominant_tone |-> css_color.value,
                   dominant_hue |-> css_color.value,
                   dominant_shade |-> css_color.value,
                   overall_tone |-> DictGet(summary, "overall_css_color", ""),
                   overall_hue |-> DictGet(summary, "overall_css_color", ""),
                   overall_shade |-> DictGet(summary, "overall_css_color", ""),
                   color_count |-> DictGet(summary, "color_count", 0),
                   neutral_colors |-> DictGet(summary, "neutral_colors", 0),
                   color_extraction_success |-> color_data.success]]

\* what extract_colors_from_product_image returns for the image of a product
ProductPalettes ==
    {<<ColorData(<<255, 0, 0>>, 40)>>,
     <<ColorData(<<255, 255, 255>>, 60), ColorData(<<0, 0, 255>>, 40)>>}

ProductColorData ==
    {NoColorsResult, ExceptionResult("convert")}
        \cup {SuccessResult(colors, get_dominant_colors_summary(colors)) :
                 colors \in ProductPalettes}

\* stats and clothing_type_stats after save_batch_to_database returned
\* (success_count, failed_count), and the run's locals after the batch is
\* cleared
BatchSaved(run, success_count, failed_count) ==
    [run EXCEPT !.stats.total_saved = @ + success_count,
                !.stats.total_failed = @ + failed_count,
                !.stats.batches_uploaded = @ + 1,
                !.clothing_type_stats.saved = @ + success_count,
                !.clothing_type_stats.failed = @ + failed_count,
                !.current_batch = <<>>,
                !.batch_number = @ + 1]

\* "if product['url'] in existing_urls": the product is skipped
SkipProduct ==
    /\ pc = "product"
    /\ produced < MaxProducts
    /\ produced' = produced + 1
    /\ probe' = [probe EXCEPT !.stats.total_skipped = @ + 1,
                              !.clothing_type_stats.skipped = @ + 1,
                              !.last = None]
    /\ UNCHANGED <<pc, palette_size, PYLETTE_AVAILABLE, colors_data, path,
                   raised, result>>

\* the try block of the loop for one product, and its except clause
ProcessProduct ==
    /\ pc = "product"
    /\ produced < MaxProducts
    /\ produced' = produced + 1
    /\ \E color_data \in ProductColorData,
          packshot_img_url \in {"", "packshot"},
          modified_img_url \in {"image", "modified"} :
           LET returned ==
                   process_single_product(Product(produced + 1), "t_shirts",
                       packshot_img_url, modified_img_url, color_data)
               appended ==
                   [probe EXCEPT
                       !.current_batch = Append(@, returned.value),
                       !.stats.total_processed = @ + 1,
                       !.clothing_type_stats.processed = @ + 1,
                       !.last = [color_data |-> color_data,
                                 raised |-> "none",
                                 appended |-> TRUE,
                                 value |-> returned.value]]
           IN  /\ result' = color_data
               /\ IF returned.raised = "none"
                  THEN IF Len(appended.current_batch) >= probe.batch_size
                       THEN \E success_count \in
                                   0..Len(appended.current_batch) :
                                probe' = BatchSaved(appended, success_count,
                                             Len(appended.current_batch)
                                                 - success_count)
                       ELSE probe' = appended
                  ELSE probe' =
                           [probe EXCEPT
                               !.stats.errors =
                                   Append(@, <<produced + 1, returned.raised>>),
                               !.clothing_type_stats.failed = @ + 1,
                               !.last = [color_data |-> color_data,
                                         raised |-> returned.raised,
                                         appended |-> FALSE,
                                         value |-> None]]
    /\ UNCHANGED <<pc, palette_size, PYLETTE_AVAILABLE, colors_data, path,
                   raised>>

\* "Upload any remaining products in the final batch", and the return of stats
FinishCollection ==
    /\ pc = "product"
    /\ produced = MaxProducts
    /\ pc' = "collected"
    /\ IF probe.current_batch # <<>>
       THEN \E success_count \in 0..Len(probe.current_batch) :
                probe' = [BatchSaved(probe, success_count,
                              Len(probe.current_batch) - success_count)
                             EXCEPT !.current_batch = probe.current_batch,
                                    !.batch_number = probe.batch_number,
                                    !.clothing_type_stats =
                                        probe.clothing_type_stats]
       ELSE probe' = probe
    /\ UNCHANGED <<palette_size, PYLETTE_AVAILABLE, colors_data, path,
                   produced, raised, result>>

CollectInit ==
    /\ pc = "product"
    /\ palette_size = 5
    /\ PYLETTE_AVAILABLE \in BOOLEAN
    /\ colors_data = <<>>
    /\ path = "none"
    /\ produced = 0
    /\ raised = "none"
    /\ result = None
    /\ \E batch_size \in 1..MaxBatchSize :
           probe = [batch_size |-> batch_size,
                    current_batch |-> <<>>,
                    batch_number |-> 1,
                    stats |-> [total_processed |-> 0, total_skipped |-> 0,
                               total_saved |-> 0, total_failed |-> 0,
                               batches_uploaded |-> 0, errors |-> <<>>],
                    clothing_type_stats |-> [processed |-> 0, skipped |-> 0,
                                             saved |-> 0, failed |-> 0],
                    last |-> None]

CollectNext == SkipProduct \/ ProcessProduct \/ FinishCollection

SpecCollect == CollectInit /\ [][CollectNext]_vars

(***************************************************************************)
(* Properties.                                                             *)
(***************************************************************************)
\* the four rules of the background classifier as one disjunction
BackgroundRules(percentage, analysis) ==
    \/ Gt(analysis.lightness, 90, 100) /\ percentage > 5
    \/ analysis.tone = "white" /\ percentage > 15
    \/ percentage > 50
    \/ /\ Gt(analysis.lightness, 70, 100)
       /\ Lt(analysis.saturation_value, 10, 100)
       /\ percentage > 30

\* d is the dominant_color dictionary made of the fields of the entry e
SameEntry(d, e) ==
    /\ d # None
    /\ d.rgb = e.rgb
    /\ d.hex = e.hex
    /\ d.css_color = e.css_color
    /\ d.tone = e.analysis.tone
    /\ d.hue = e.analysis.hue
    /\ d.shade = e.analysis.shade
    /\ d.percentage = e.percentage

\* ten times (is_neutral ? -1000 : 0) + saturation_value*100 + percentage*0.1,
\* times the denominator of saturation_value
ScoreNumerator(e) ==
    ((IF e.analysis.is_neutral THEN -10000 ELSE 0) + e.percentage)
        * e.analysis.saturation_value[2]
    + 1000 * e.analysis.saturation_value[1]

\* the score of a is below, or equal to, the score of b
ScoreBelow(a, b) ==
    ScoreNumerator(a) * b.analysis.saturation_value[2]
        < ScoreNumerator(b) * a.analysis.saturation_value[2]

ScoreEqual(a, b) ==
    ScoreNumerator(a) * b.analysis.saturation_value[2]
        = ScoreNumerator(b) * a.analysis.saturation_value[2]

\* entry i has the largest score among the entries of among, and is the
\* first of them that has it
FirstMaximum(colors, among, i) ==
    /\ i \in among
    /\ \A j \in among :
           \/ ScoreBelow(colors[j], colors[i])
           \/ ScoreEqual(colors[j], colors[i]) /\ i <= j

NonBackground(colors) == {i \in 1..Len(colors) : ~colors[i].is_background}

(***************************************************************************)
(* C1: for every palette_size >= 1 the list extract_colors_from_image      *)
(* returns has at most palette_size entries, on the Pylette path and on    *)
(* the KMeans path, however many clusters the clustering step produced.    *)
(***************************************************************************)
C1_AtMostPaletteSize ==
    /\ pc \in {"extracted", "done"} => Len(colors_data) <= palette_size
    /\ pc = "done" => Len(result.colors) <= palette_size

\* KMeans gave palette_size + 1 clusters and the palette was cut to palette_size
C1_Witness ==
    /\ pc = "extracted"
    /\ path = "sklearn"
    /\ produced = palette_size + 1
    /\ Len(colors_data) = palette_size

(***************************************************************************)
(* C2: extract_colors_from_product_image never propagates an exception:    *)
(* whatever fails (download, conversion, either clustering, a colour, the  *)
(* summary), the call goes on until it returns a dictionary with a boolean *)
(* success.                                                                *)
(***************************************************************************)
C2_NeverPropagates ==
    /\ pc # "propagated"
    /\ pc = "done" =>
           /\ result # None
           /\ "success" \in DOMAIN result
           /\ result.success \in BOOLEAN
    /\ pc # "done" => ENABLED Next

\* the summary step raised and the call still returned a dictionary
C2_Witness ==
    /\ pc = "done"
    /\ raised = "summary"
    /\ result.success = FALSE

(***************************************************************************)
(* C3: success is false exactly when no palette entry was extracted or an  *)
(* exception reached the call's handler; when a non-empty palette was      *)
(* extracted and summarised, success is true and colors is that palette.   *)
(***************************************************************************)
C3_SuccessIffPalette ==
    pc = "done" =>
        /\ (result.success = FALSE)
               <=> (colors_data = <<>> \/ raised # "none")
        /\ (colors_data # <<>> /\ raised = "none") =>
               /\ result.success = TRUE
               /\ result.colors = colors_data
               /\ result.colors # <<>>

\* Pylette failed, KMeans gave a palette, the call reports success
C3_Witness ==
    /\ pc = "done"
    /\ PYLETTE_AVAILABLE
    /\ path = "sklearn"
    /\ result.success = TRUE
    /\ result.colors # <<>>

(***************************************************************************)
(* C4: on every result with success = false, and in the summary of an      *)
(* empty palette, dominant_color is None, each of overall_tone,            *)
(* overall_hue, overall_shade and overall_css_color is "unknown", and each *)
(* of color_count, neutral_colors, warm_colors and cool_colors is 0.       *)
(***************************************************************************)
DefaultSummary(s) ==
    /\ "dominant_color" \in DOMAIN s /\ s.dominant_color = None
    /\ \A f \in {"overall_tone", "overall_hue", "overall_shade",
                 "overall_css_color"} :
           f \in DOMAIN s /\ s[f] = "unknown"
    /\ \A f \in {"color_count", "neutral_colors", "warm_colors",
                 "cool_colors"} :
           f \in DOMAIN s /\ s[f] = 0

C4_FailureSummaryDefaults ==
    /\ (pc = "done" /\ result.success = FALSE) =>
           DefaultSummary(result.summary)
    /\ DefaultSummary(get_dominant_colors_summary(<<>>))

(***************************************************************************)
(* C5: the dominant colour of a non-empty palette is an entry that is not  *)
(* flagged background, unless every entry of the palette is flagged.       *)
(***************************************************************************)
C5_DominantNotBackground ==
    (pc = "summarised" /\ NonBackground(colors_data) # {}) =>
        \E i \in NonBackground(colors_data) :
            SameEntry(result.dominant_color, colors_data[i])

\* a flagged entry outscores every entry that is not flagged
C5_Witness ==
    /\ pc = "summarised"
    /\ NonBackground(colors_data) # {}
    /\ \E b \in 1..Len(colors_data) :
           /\ colors_data[b].is_background
           /\ \A i \in NonBackground(colors_data) :
                  ScoreBelow(colors_data[i], colors_data[b])

(***************************************************************************)
(* C6: when every entry of a non-empty palette is flagged background, the  *)
(* dominant colour is the entry of largest score over the whole palette    *)
(* (the first of them on a tie), not merely the first entry.               *)
(***************************************************************************)
C6_AllBackgroundUsesFullPalette ==
    (pc = "summarised" /\ colors_data # <<>>
        /\ NonBackground(colors_data) = {}) =>
        \E i \in 1..Len(colors_data) :
            /\ FirstMaximum(colors_data, 1..Len(colors_data), i)
            /\ SameEntry(result.dominant_color, colors_data[i])

(***************************************************************************)
(* C7: dominant_color is None exactly for the empty palette; for any other *)
(* palette its rgb, hex, css_color, tone, hue, shade and percentage all    *)
(* come from one and the same entry of the palette.                        *)
(***************************************************************************)
C7_DominantFromOneEntry ==
    pc = "summarised" =>
        /\ (result.dominant_color = None) <=> (colors_data = <<>>)
        /\ colors_data # <<>> =>
               \E i \in 1..Len(colors_data) :
                   SameEntry(result.dominant_color, colors_data[i])

\* the dominant colour is not the first entry, and its tone and hue differ
C7_Witness ==
    /\ pc = "summarised"
    /\ Len(colors_data) >= 2
    /\ result.dominant_color.rgb # colors_data[1].rgb
    /\ result.dominant_color.tone # result.dominant_color.hue

(***************************************************************************)
(* C8: among the candidates that survive background removal (the entries   *)
(* not flagged; the first entry alone when all are flagged) the dominant   *)
(* colour has the largest score, and is the first in palette order of the  *)
(* candidates that have it.                                                *)
(***************************************************************************)
Survivors(colors) ==
    IF NonBackground(colors) = {} THEN {1} ELSE NonBackground(colors)

C8_DominantIsFirstMaximum ==
    (pc = "summarised" /\ colors_data # <<>>) =>
        \E i \in Survivors(colors_data) :
            /\ FirstMaximum(colors_data, Survivors(colors_data), i)
            /\ SameEntry(result.dominant_color, colors_data[i])

\* two candidates of different colour share the largest score
C8_Witness ==
    /\ pc = "summarised"
    /\ \E i, j \in NonBackground(colors_data) :
           /\ i < j
           /\ FirstMaximum(colors_data, NonBackground(colors_data), i)
           /\ ScoreEqual(colors_data[i], colors_data[j])
           /\ colors_data[i].rgb # colors_data[j].rgb
           /\ SameEntry(result.dominant_color, colors_data[i])

(***************************************************************************)
(* C9: _is_background_color returns true exactly when one of the four      *)
(* rules holds, in whatever order they are tested; an entry with           *)
(* percentage > 50 is always flagged.                                      *)
(***************************************************************************)
C9_BackgroundIsDisjunction ==
    pc = "classified" =>
        /\ probe.is_background
               = BackgroundRules(probe.percentage, probe.analysis)
        /\ probe.percentage > 50 => probe.is_background = TRUE

\* only the rule the code tests last holds
C9_Witness ==
    /\ pc = "classified"
    /\ probe.is_background = TRUE
    /\ probe.percentage <= 50
    /\ probe.analysis.tone # "white"
    /\ ~Gt(probe.analysis.lightness, 90, 100)

(***************************************************************************)
(* C10: every entry of every palette the extractor returns, the mid-gray   *)
(* placeholder included, has is_background equal to _is_background_color   *)
(* of its own percentage and analysis, in colors_data and in the colors of *)
(* the result.                                                             *)
(***************************************************************************)
FlagsFromClassifier(colors) ==
    \A i \in 1..Len(colors) :
        colors[i].is_background
            = _is_background_color(colors[i].percentage, colors[i].analysis)

C10_FlagIsClassifierOutput ==
    /\ FlagsFromClassifier(colors_data)
    /\ pc = "done" => FlagsFromClassifier(result.colors)

\* a palette with the placeholder and with a flagged entry
C10_Witness ==
    /\ pc = "done"
    /\ result.success = TRUE
    /\ \E i, j \in 1..Len(result.colors) :
           /\ result.colors[i] = FallbackColorData
           /\ result.colors[j].is_background

\* the catalog: names, and the place and the value of a name
CatalogNames == {CSS_COLORS[i].name : i \in 1..Len(CSS_COLORS)}

(***************************************************************************)
(* C11: for every RGB triple the normalised distance the matcher returns   *)
(* (the minimum adjusted distance divided by 441.67) lies in [0, 1], the   *)
(* factors 1.3 and 1.5 notwithstanding.                                    *)
(***************************************************************************)
C11_DistanceInUnitInterval ==
    pc = "matched" =>
        /\ 0 <= probe.css.css_distance[1]
        /\ probe.css.css_distance[1] <= probe.css.css_distance[2]

\* the colour of the cube found farthest from the catalog (0.1685)
C11_Witness ==
    /\ pc = "matched"
    /\ probe.rgb = <<71, 8, 56>>
    /\ probe.css.css_distance[1] > 0

(***************************************************************************)
(* C12: the matcher is total: for every RGB triple it returns the name of  *)
(* a catalog entry, never "unknown".                                       *)
(***************************************************************************)
C12_AlwaysACatalogName ==
    pc = "matched" =>
        /\ probe.css.css_color \in CatalogNames
        /\ probe.css.css_color # "unknown"

\* a colour that is the value of no catalog entry has a name
C12_Witness ==
    /\ pc = "matched"
    /\ probe.rgb \notin CatalogColors
    /\ probe.css.css_color \in CatalogNames

(***************************************************************************)
(* C13: for a non-empty palette each of the four distributions counts      *)
(* every entry of the full palette once, flagged entries included: a key's *)
(* count is the number of entries with that value, every value is a key,   *)
(* the counts add up to color_count, and color_count is the length of the  *)
(* palette.                                                                *)
(***************************************************************************)
CountsEveryEntry(distribution, values) ==
    /\ \A k \in 1..Len(distribution) :
           /\ distribution[k][2]
                  = Cardinality({i \in 1..Len(values) :
                                    values[i] = distribution[k][1]})
           /\ \A l \in 1..Len(distribution) :
                  distribution[l][1] = distribution[k][1] => l = k
    /\ \A i \in 1..Len(values) :
           \E k \in 1..Len(distribution) : distribution[k][1] = values[i]
    /\ SumSeq([k \in 1..Len(distribution) |-> distribution[k][2]])
           = Len(values)

C13_DistributionsCountFullPalette ==
    (pc = "summarised" /\ colors_data # <<>>) =>
        LET n == Len(colors_data)
        IN  /\ result.color_count = n
            /\ CountsEveryEntry(result.tone_distribution,
                    [i \in 1..n |-> colors_data[i].analysis.tone])
            /\ CountsEveryEntry(result.hue_distribution,
                    [i \in 1..n |-> colors_data[i].analysis.hue])
            /\ CountsEveryEntry(result.shade_distribution,
                    [i \in 1..n |-> colors_data[i].analysis.shade])
            /\ CountsEveryEntry(result.css_color_distribution,
                    [i \in 1..n |-> colors_data[i].css_color])

\* two flagged entries of one tone next to an entry that is not flagged
C13_Witness ==
    /\ pc = "summarised"
    /\ NonBackground(colors_data) # {}
    /\ \E i, j \in 1..Len(colors_data) :
           /\ i < j
           /\ colors_data[i].is_background
           /\ colors_data[j].is_background
           /\ colors_data[i].analysis.tone = colors_data[j].analysis.tone
           /\ \E k \in 1..Len(result.tone_distribution) :
                  /\ result.tone_distribution[k][1]
                         = colors_data[i].analysis.tone
                  /\ result.tone_distribution[k][2] >= 2

(***************************************************************************)
(* C14: overall_css_color is the most frequent reference colour of the     *)
(* full palette and, when several share the highest count, the one that    *)
(* comes first in the iteration order of the catalog.                      *)
(***************************************************************************)
CatalogIndex(name) ==
    CHOOSE i \in 1..Len(CSS_COLORS) : CSS_COLORS[i].name = name

Occurrences(colors, name) ==
    Cardinality({i \in 1..Len(colors) : colors[i].css_color = name})

C14_OverallByCatalogOrder ==
    (pc = "summarised" /\ colors_data # <<>>) =>
        LET overall == result.overall_css_color
        IN  /\ Occurrences(colors_data, overall) >= 1
            /\ \A i \in 1..Len(colors_data) :
                   LET other == colors_data[i].css_color
                   IN  \/ Occurrences(colors_data, other)
                             < Occurrences(colors_data, overall)
                       \/ /\ Occurrences(colors_data, other)
                                = Occurrences(colors_data, overall)
                          /\ CatalogIndex(overall) <= CatalogIndex(other)

C16_FallbackExactlyOnPrimaryFailure ==
    /\ [][/\ (pc = "image" /\ pc' # "done") =>
                pc' = IF PYLETTE_AVAILABLE THEN "pylette" ELSE "sklearn"
          /\ pc = "pylette" =>
                \/ pc' = "sklearn" /\ colors_data' = <<>> /\ path' = "none"
                \/ /\ pc' = "extracted"
                   /\ path' = "pylette"
                   /\ colors_data' # <<>>
                   /\ Len(colors_data') <= palette_size
          /\ pc' = "sklearn" => pc \in {"image", "pylette"}
          /\ path = "pylette" => path' = "pylette" /\ pc' # "sklearn"]_vars
    /\ [](path = "pylette" => pc \in {"extracted", "done"})
    /\ []((pc = "done" /\ path = "sklearn" /\ colors_data # <<>>
               /\ raised = "none") =>
              /\ result.success = TRUE
              /\ "error" \notin DOMAIN result
              /\ result.colors = colors_data)

\* Pylette was available and failed, KMeans gave the palette returned
C16_Witness ==
    /\ pc = "done"
    /\ PYLETTE_AVAILABLE
    /\ path = "sklearn"
    /\ produced >= 1
    /\ result.success = TRUE
    /\ "error" \notin DOMAIN result

(***************************************************************************)
(* C17: on either path a colour whose processing fails keeps its slot as   *)
(* the mid-gray entry, so the palette returned has exactly                 *)
(* min(palette_size, number of clusters the clustering step gave) entries. *)
(***************************************************************************)
C17_ExactlyMinEntries ==
    (pc = "extracted" /\ path \in {"pylette", "sklearn"} /\ produced >= 1) =>
        Len(colors_data)
            = IF produced < palette_size THEN produced ELSE palette_size

ClaimFactor(family, chars, keywords) ==
    LET half == IF AnyKeyword(chars, keywords[family]) THEN 1 ELSE 2
        gray == IF family \notin {"gray", "white", "black"}
                   /\ AnyKeyword(chars, keywords["gray"])
                THEN 3 ELSE 2
        colorful == IF family \in {"gray", "white", "black"}
                       /\ ~AnyKeyword(chars, keywords[family])
                    THEN 13 ELSE 10
    IN  (20 * half * gray * colorful) \div 40

\* the squares of the adjusted distances of the catalog, in units of 1/400
ClaimDistances(rgb, family, catalog, keywords) ==
    [i \in 1..Len(catalog) |->
        SquaredDistance(rgb, catalog[i].rgb)
            * ClaimFactor(family, catalog[i].chars, keywords)
            * ClaimFactor(family, catalog[i].chars, keywords)]

FirstOfMinimalDistance(catalog, distances, css) ==
    \E i \in 1..Len(catalog) :
        /\ catalog[i].name = css.css_color
        /\ \A j \in 1..Len(catalog) :
               \/ distances[i] < distances[j]
               \/ distances[i] = distances[j] /\ i <= j
        \* (sqrt(distances[i]) / 20 / 441.67)^2 = 25 * distances[i] / 44167^2
        /\ css.css_distance = <<25 * distances[i], 44167 * 44167>>

MatchedAsClaimed(rgb, css, catalog, keywords) ==
    FirstOfMinimalDistance(catalog,
        ClaimDistances(rgb, ColorFamily(rgb), catalog, keywords), css)

C19_MinimalAdjustedDistance ==
    pc = "matched" =>
        MatchedAsClaimed(probe.rgb, probe.css, CSS_COLORS, family_keywords)

\* the entry returned is not the nearest entry of the catalog
NotTheNearest(rgb, css, catalog) ==
    \E i, j \in 1..Len(catalog) :
        /\ catalog[i].name = css.css_color
        /\ SquaredDistance(rgb, catalog[j].rgb)
               < SquaredDistance(rgb, catalog[i].rgb)

C19_Witness ==
    /\ pc = "matched"
    /\ NotTheNearest(probe.rgb, probe.css, CSS_COLORS)

(***************************************************************************)
(* C20: for an RGB triple that is the value of a catalog entry the matcher *)
(* returns distance 0 and a name whose value is that triple; for any other *)
(* triple the distance is strictly positive; (128,128,128) gets a name of  *)
(* the gray family with distance 0.                                        *)
(***************************************************************************)
ExactIffCatalogValue(rgb, css, catalog, keywords) ==
    /\ (\E i \in 1..Len(catalog) : catalog[i].rgb = rgb) =>
           /\ css.css_distance[1] = 0
           /\ \E i \in 1..Len(catalog) :
                  catalog[i].name = css.css_color /\ catalog[i].rgb = rgb
    /\ (\A i \in 1..Len(catalog) : catalog[i].rgb # rgb) =>
           css.css_distance[1] > 0
    /\ rgb = <<128, 128, 128>> =>
           /\ css.css_distance[1] = 0
           /\ \E i \in 1..Len(catalog) :
                  /\ catalog[i].name = css.css_color
                  /\ AnyKeyword(catalog[i].chars, keywords["gray"])

C20_ExactMatchHasDistanceZero ==
    pc = "matched" =>
        ExactIffCatalogValue(probe.rgb, probe.css, CSS_COLORS, family_keywords)

\* mid-gray is matched to "gray"
C20_Witness ==
    /\ pc = "matched"
    /\ probe.rgb = <<128, 128, 128>>
    /\ probe.css.css_color = "gray"
    /\ probe.css.css_distance[1] = 0

\* the fraction q is below n hundredths; below n degrees
BelowHundredths(q, n) == 100 * q[1] < n * q[2]

BelowDegrees(q, n) == q[1] < n * q[2]

\* the tone, shade, saturation character and temperature of the tables
TableTone(h, l, s) ==
    CASE BelowHundredths(l, 15) -> "black"
      [] ~BelowHundredths(l, 15) /\ ~(l[1] * 100 <= 85 * l[2]) -> "white"
      [] ~BelowHundredths(l, 15) /\ (l[1] * 100 <= 85 * l[2])
            /\ BelowHundredths(s, 15) -> "neutral"
      [] OTHER ->
            IF BelowDegrees(h, 30) \/ ~BelowDegrees(h, 330) THEN "red"
            ELSE IF BelowDegrees(h, 60) THEN "orange"
            ELSE IF BelowDegrees(h, 90) THEN "yellow"
            ELSE IF BelowDegrees(h, 150) THEN "green"
            ELSE IF BelowDegrees(h, 210) THEN "blue"
            ELSE IF BelowDegrees(h, 270) THEN "purple"
            ELSE "pink"

TableShade(l) ==
    IF BelowHundredths(l, 20) THEN "dark"
    ELSE IF BelowHundredths(l, 40) THEN "medium-dark"
    ELSE IF BelowHundredths(l, 60) THEN "medium"
    ELSE IF BelowHundredths(l, 80) THEN "medium-light"
    ELSE "light"

TableSaturation(s) ==
    IF BelowHundredths(s, 20) THEN "muted"
    ELSE IF BelowHundredths(s, 50) THEN "soft"
    ELSE IF BelowHundredths(s, 80) THEN "vibrant"
    ELSE "intense"

(***************************************************************************)
(* C21: for every lightness and saturation in [0, 1] and hue in [0, 360),  *)
(* the thresholds included, _analyze_color returns the tone black below    *)
(* lightness 0.15, white above 0.85, neutral below saturation 0.15, else   *)
(* the 60-degree hue bucket; the shade by lightness 0.2 / 0.4 / 0.6 / 0.8; *)
(* the saturation character by saturation 0.2 / 0.5 / 0.8; temperature     *)
(* warm iff the hue is below 90 or at least 270; and is_neutral iff the    *)
(* saturation is below 0.15 or the lightness below 0.15 or above 0.85.     *)
(***************************************************************************)
C21_AnalysisByThresholds ==
    pc = "analyzed" =>
        LET h == probe.hsl.h_deg
            l == probe.hsl.l
            s == probe.hsl.s
            analysis == probe.analysis
        IN  /\ analysis.tone = TableTone(h, l, s)
            /\ analysis.shade = TableShade(l)
            /\ analysis.saturation = TableSaturation(s)
            /\ analysis.temperature = "warm"
                   <=> (BelowDegrees(h, 90) \/ ~BelowDegrees(h, 270))
            /\ analysis.temperature \in {"warm", "cool"}
            /\ analysis.is_neutral
                   <=> \/ BelowHundredths(s, 15)
                       \/ BelowHundredths(l, 15)
                       \/ ~(l[1] * 100 <= 85 * l[2])

\* a colour on three thresholds at once: lightness 0.15, saturation 0.15 and
\* hue 330 give the tone red
C21_Witness ==
    /\ pc = "analyzed"
    /\ probe.hsl = [h_deg |-> <<330, 1>>, l |-> <<15, 100>>, s |-> <<15, 100>>]
    /\ probe.analysis.tone = "red"
    /\ probe.analysis.shade = "dark"
    /\ ~probe.analysis.is_neutral

\* the catalog names that hold a keyword of the blue family
BlueFamilyNames ==
    {CSS_COLORS[i].name : i \in {j \in 1..Len(CSS_COLORS) :
        AnyKeyword(CSS_COLORS[j].chars, family_keywords["blue"])}}

(***************************************************************************)
(* C22: pure blue, RGB (0, 0, 255), of HSL hue 240 degrees, is analysed as *)
(* tone "blue", saturation character "intense", temperature "cool" and     *)
(* is_neutral false, and its nearest reference colour is a catalog name of *)
(* the blue family.                                                        *)
(***************************************************************************)
C22_PureBlue ==
    pc = "built" /\ probe.rgb = <<0, 0, 255>> =>
        /\ probe.color_data.hsl.hue = <<240, 1>>
        /\ probe.color_data.analysis.tone = "blue"
        /\ probe.color_data.analysis.saturation = "intense"
        /\ probe.color_data.analysis.temperature = "cool"
        /\ ~probe.color_data.analysis.is_neutral
        /\ probe.color_data.css_color \in BlueFamilyNames

\* a comes before b in the order "non-neutral first, then the higher
\* saturation, then the higher percentage"
LexBefore(a, b) ==
    LET sa == a.analysis.saturation_value
        sb == b.analysis.saturation_value
    IN  \/ ~a.analysis.is_neutral /\ b.analysis.is_neutral
        \/ /\ a.analysis.is_neutral = b.analysis.is_neutral
           /\ \/ sa[1] * sb[2] > sb[1] * sa[2]
              \/ sa[1] * sb[2] = sb[1] * sa[2] /\ a.percentage > b.percentage

(***************************************************************************)
(* C23: the dominant colour is the first candidate in the lexicographic    *)
(* order the code comment states (non-neutral before neutral, then higher  *)
(* saturation, then higher percentage): no candidate comes before it in    *)
(* that order, so of two non-neutral candidates the one of strictly higher *)
(* saturation_value is preferred whatever their percentages.               *)
(***************************************************************************)
C23_LexicographicSelection ==
    (pc = "summarised" /\ colors_data # <<>>) =>
        \E i \in Survivors(colors_data) :
            /\ SameEntry(result.dominant_color, colors_data[i])
            /\ \A j \in Survivors(colors_data) :
                   ~LexBefore(colors_data[j], colors_data[i])

ChromaticTones == {"red", "orange", "yellow", "green", "blue", "purple", "pink"}

(***************************************************************************)
(* C24: for every hue, lightness and saturation, _analyze_color returns    *)
(* is_neutral true if and only if the tone it returns is black, white or   *)
(* neutral: a colour of a chromatic tone is never neutral and a neutral    *)
(* colour never has a chromatic tone.                                      *)
(***************************************************************************)
C24_NeutralIffAchromaticTone ==
    pc = "analyzed" =>
        /\ probe.analysis.is_neutral
               <=> probe.analysis.tone \in {"black", "white", "neutral"}
        /\ probe.analysis.tone \in ChromaticTones => ~probe.analysis.is_neutral
        /\ probe.analysis.is_neutral => probe.analysis.tone \notin ChromaticTones

\* a dark colour of full saturation: neutral by its lightness alone
C24_Witness ==
    /\ pc = "analyzed"
    /\ probe.hsl.l = <<14, 100>>
    /\ probe.hsl.s = <<1, 1>>
    /\ probe.analysis.tone = "black"
    /\ probe.analysis.is_neutral

(***************************************************************************)
(* C25: for every RGB triple the family the matcher detects and the        *)
(* attributes the analyser computes agree: the family is white iff the     *)
(* tone is white, black iff the tone is black, gray iff the tone is        *)
(* neutral; and when the family is chromatic the analyser's hue field is   *)
(* the family, but for the family cyan, whose hue field is blue.           *)
(***************************************************************************)
C25_FamilyAgreesWithAnalysis ==
    pc = "built" =>
        LET color_family == probe.color_family
            analysis == probe.color_data.analysis
        IN  /\ color_family = "white" <=> analysis.tone = "white"
            /\ color_family = "black" <=> analysis.tone = "black"
            /\ color_family = "gray" <=> analysis.tone = "neutral"
            /\ color_family \notin NeutralFamilies =>
                   analysis.hue =
                       IF color_family = "cyan" THEN "blue" ELSE color_family

\* aqua, of the family cyan: its hue field is blue
C25_Witness ==
    /\ pc = "built"
    /\ probe.rgb = <<0, 255, 255>>
    /\ probe.color_family = "cyan"
    /\ probe.color_data.analysis.hue = "blue"

\* an entry without a hue: saturation 0, for which colorsys gives the hue 0
Achromatic(e) == e.hsl.saturation[1] = 0 /\ e.hsl.hue[1] = 0

AchromaticEntries(colors) == {i \in 1..Len(colors) : Achromatic(colors[i])}

(***************************************************************************)
(* C26: for every non-empty palette warm_colors + cool_colors is           *)
(* color_count and neutral_colors is at most color_count: every entry, the *)
(* neutral ones included, is counted as exactly one of warm and cool, and  *)
(* an achromatic entry (saturation 0, hue 0) is always counted as warm.    *)
(***************************************************************************)
C26_WarmPlusCoolIsCount ==
    (pc = "summarised" /\ colors_data # <<>>) =>
        /\ result.color_count = Len(colors_data)
        /\ result.warm_colors + result.cool_colors = result.color_count
        /\ result.neutral_colors <= result.color_count
        /\ \A i \in AchromaticEntries(colors_data) :
               colors_data[i].analysis.temperature = "warm"
        /\ result.warm_colors >= Cardinality(AchromaticEntries(colors_data))
        /\ result.cool_colors
               <= Len(colors_data) - Cardinality(AchromaticEntries(colors_data))

\* a palette of achromatic entries and one cool colour
C26_Witness ==
    /\ pc = "summarised"
    /\ Len(colors_data) = 3
    /\ Cardinality(AchromaticEntries(colors_data)) = 2
    /\ result.warm_colors = 2
    /\ result.cool_colors = 1
    /\ result.neutral_colors = 2

NonNeutral(colors, among) == {i \in among : ~colors[i].analysis.is_neutral}

(***************************************************************************)
(* C27: for every palette whose entries have a saturation_value in [0, 1]  *)
(* and a percentage in [0, 100], if a candidate that survives background   *)
(* removal is non-neutral then the dominant colour is non-neutral: the     *)
(* penalty of -1000 is never outweighed by the saturation and percentage   *)
(* terms, so a neutral entry is dominant only when every surviving         *)
(* candidate is neutral.                                                   *)
(***************************************************************************)
C27_NonNeutralBeatsNeutral ==
    (pc = "summarised" /\ colors_data # <<>>
        /\ NonNeutral(colors_data, Survivors(colors_data)) # {}) =>
        \E i \in NonNeutral(colors_data, Survivors(colors_data)) :
            SameEntry(result.dominant_color, colors_data[i])

\* a neutral candidate of saturation 1 and percentage 40 loses to a
\* non-neutral candidate of saturation 0.15 and percentage 0
C27_Witness ==
    /\ pc = "summarised"
    /\ Len(colors_data) = 2
    /\ colors_data[1].rgb = <<60, 0, 0>>
    /\ colors_data[1].percentage = 40
    /\ colors_data[1].analysis.is_neutral
    /\ ~colors_data[1].is_background
    /\ colors_data[2].rgb = <<115, 100, 85>>
    /\ colors_data[2].percentage = 0
    /\ result.dominant_color.rgb = <<115, 100, 85>>

(***************************************************************************)
(* C28: an entry whose percentage is at most 5 is never flagged            *)
(* background, whatever its analysis; so in a palette whose weights are    *)
(* all 0 (the extraction method reports no weights) no entry is flagged    *)
(* and the dominant colour is the entry of largest score of the whole      *)
(* palette.                                                                *)
(***************************************************************************)
C28_SmallWeightNeverBackground ==
    /\ \A i \in 1..Len(colors_data) :
           colors_data[i].percentage <= 5 => ~colors_data[i].is_background
    /\ (pc = "summarised" /\ colors_data # <<>>
           /\ \A i \in 1..Len(colors_data) : colors_data[i].percentage = 0) =>
           /\ NonBackground(colors_data) = 1..Len(colors_data)
           /\ \E i \in 1..Len(colors_data) :
                  /\ FirstMaximum(colors_data, 1..Len(colors_data), i)
                  /\ SameEntry(result.dominant_color, colors_data[i])

\* a palette without weights: white and light gray are not flagged, and the
\* dominant colour is the last entry, of the largest score
C28_Witness ==
    /\ pc = "summarised"
    /\ Len(colors_data) = 3
    /\ \A i \in 1..3 : colors_data[i].percentage = 0
    /\ colors_data[1].rgb = <<255, 255, 255>>
    /\ ~colors_data[1].is_background
    /\ colors_data[2].rgb = <<211, 211, 211>>
    /\ colors_data[3].rgb = <<68, 130, 180>>
    /\ result.dominant_color.rgb = <<68, 130, 180>>

\* the positions of the catalog whose value an earlier entry has already
Twins == {p \in (1..Len(CSS_COLORS)) \X (1..Len(CSS_COLORS)) :
             p[1] < p[2] /\ CSS_COLORS[p[1]].rgb = CSS_COLORS[p[2]].rgb}

LaterTwinNames == {CSS_COLORS[p[2]].name : p \in Twins}

(***************************************************************************)
(* C29: for every RGB triple _find_closest_css_color never returns a       *)
(* catalog name whose value repeats that of an earlier entry (cyan,        *)
(* magenta, grey, darkgrey, dimgrey, lightgrey, slategrey, darkslategrey,  *)
(* lightslategrey): such a name gets the multipliers of its earlier twin   *)
(* (aqua, fuchsia, gray, ...), and the strict comparison keeps the earlier *)
(* of the two.                                                             *)
(***************************************************************************)
C29_NeverALaterTwin ==
    pc = "matched" =>
        /\ LaterTwinNames =
               {"cyan", "magenta", "grey", "darkgrey", "dimgrey", "lightgrey",
                "slategrey", "darkslategrey", "lightslategrey"}
        /\ probe.css.css_color \notin LaterTwinNames
        /\ \A p \in Twins :
               Adjustment(ColorFamily(probe.rgb), CSS_COLORS[p[1]].chars,
                          family_keywords)
                   = Adjustment(ColorFamily(probe.rgb), CSS_COLORS[p[2]].chars,
                                family_keywords)

\* a colour that is no catalog value, matched to the earlier of two twins
\* (darkslategray, not darkslategrey)
C29_Witness ==
    /\ pc = "matched"
    /\ probe.rgb \notin CatalogColors
    /\ \E p \in Twins : probe.css.css_color = CSS_COLORS[p[1]].name
    /\ probe.css.css_color = "darkslategray"
    /\ probe.css.css_distance[1] > 0

(***************************************************************************)
(* C30: when colour extraction fails for a product (success false and      *)
(* summary.dominant_color null), process_single_product still returns a    *)
(* complete product record, with color_extraction_success false and the    *)
(* empty string in the dominant colour fields, and raises nothing, so the  *)
(* batch collector appends the product to the current batch and does not   *)
(* count it as failed.                                                     *)
(***************************************************************************)
C30_FailedExtractionStillCollected ==
    (probe.last # None /\ ~probe.last.color_data.success
        /\ probe.last.color_data.summary.dominant_color = None) =>
        /\ probe.last.raised = "none"
        /\ probe.last.appended
        /\ probe.last.value.color_extraction_success = FALSE
        /\ probe.last.value.dominant_color_hex = ""
        /\ probe.last.value.dominant_color_rgb = ""
        /\ probe.last.value.dominant_tone = ""
        /\ probe.stats.errors = <<>>

====
